---- MODULE Spec2Model ----
(***************************************************************************)
(* A model of motly-to-proto: motlySchemaToProto and the functions it      *)
(* calls (src/unnamed/part_000).  A JavaScript string is a sequence of     *)
(* one-character strings, so that the regular expressions and the case     *)
(* conversions of the naming functions are computed character by character.*)
(* A value of the parsed schema tree is a record [k, v]:                   *)
(*   k = "str"    v = the string                                           *)
(*   k = "arr"    v = the sequence of its (string) elements                *)
(*   k = "obj"    v = the sequence of <<key, value>> in Object.entries     *)
(*                order                                                    *)
(*   k = "other"  v = <<>>   (a number, a boolean, null, a function)       *)
(*   k = "undef"  v = <<>>   (undefined: no such property)                 *)
(***************************************************************************)
EXTENDS Integers, Sequences, FiniteSets

\* ------------------------------------------------------------------------
\* Characters
\* ------------------------------------------------------------------------

LowerSeq ==
  <<"a","b","c","d","e","f","g","h","i","j","k","l","m",
    "n","o","p","q","r","s","t","u","v","w","x","y","z">>

UpperSeq ==
  <<"A","B","C","D","E","F","G","H","I","J","K","L","M",
    "N","O","P","Q","R","S","T","U","V","W","X","Y","Z">>

DigitSeq == <<"0","1","2","3","4","5","6","7","8","9">>

Range(s) == { s[i] : i \in DOMAIN s }

IsLower(c) == c \in Range(LowerSeq)

IsUpper(c) == c \in Range(UpperSeq)

IsDigit(c) == c \in Range(DigitSeq)

\* \s of a JavaScript regular expression, as far as the model's alphabet goes
IsSpace(c) == c \in {" ", "\t", "\n", "\r"}

\* a line terminator, which "." of a regular expression does not match
IsLineTerminator(c) == c \in {"\n", "\r"}

IndexIn(c, s) == CHOOSE i \in DOMAIN s : s[i] = c

ToUpperChar(c) == IF IsLower(c) THEN UpperSeq[IndexIn(c, LowerSeq)] ELSE c

ToLowerChar(c) == IF IsUpper(c) THEN LowerSeq[IndexIn(c, UpperSeq)] ELSE c

\* String.prototype.toUpperCase / toLowerCase
ToUpperCase(s) == [i \in DOMAIN s |-> ToUpperChar(s[i])]

ToLowerCase(s) == [i \in DOMAIN s |-> ToLowerChar(s[i])]

\* s.slice(from - 1) in JavaScript's 0-based terms: the characters from..Len(s)
Tail_(s, from) == SubSeq(s, from, Len(s))

\* ------------------------------------------------------------------------
\* Naming transforms
\* ------------------------------------------------------------------------

\* The end of the maximal run of capitals that starts at i (s[i] is a capital)
RECURSIVE UpperRunEnd(_, _)
UpperRunEnd(s, i) ==
  IF i + 1 <= Len(s) /\ IsUpper(s[i + 1]) THEN UpperRunEnd(s, i + 1) ELSE i

\* .replace(/([A-Z]+)([A-Z][a-z])/g, "$1_$2"): the scan from position i.
\* [A-Z]+ is greedy and gives back one capital to [A-Z][a-z]; a match that
\* starts at i therefore takes the whole run i..j and the lower-case s[j+1].
\* the name from i on with no underscore put into its runs of capitals
SnakeNoAcronyms(s, i) == SubSeq(s, i, Len(s))

RECURSIVE SnakeAcronyms(_, _)
SnakeAcronyms(s, i) ==
  IF i > Len(s) THEN <<>>
  ELSE IF IsUpper(s[i])
       THEN LET j == UpperRunEnd(s, i)
            IN  IF j > i /\ j + 1 <= Len(s) /\ IsLower(s[j + 1])
                THEN SubSeq(s, i, j - 1) \o <<"_">> \o <<s[j], s[j + 1]>>
                       \o SnakeAcronyms(s, j + 2)
                ELSE <<s[i]>> \o SnakeAcronyms(s, i + 1)
       ELSE <<s[i]>> \o SnakeAcronyms(s, i + 1)

\* .replace(/([a-z\d])([A-Z])/g, "$1_$2"): the scan from position i
RECURSIVE SnakeHumps(_, _)
SnakeHumps(s, i) ==
  IF i > Len(s) THEN <<>>
  ELSE IF (IsLower(s[i]) \/ IsDigit(s[i])) /\ i + 1 <= Len(s) /\ IsUpper(s[i + 1])
       THEN <<s[i], "_", s[i + 1]>> \o SnakeHumps(s, i + 2)
       ELSE <<s[i]>> \o SnakeHumps(s, i + 1)

\* .replace(/[-\s]+/g, "_"): the scan from position i; inRun says that the
\* run of hyphens and white space that s[i] continues has been replaced
RECURSIVE SnakeSeparators(_, _, _)
SnakeSeparators(s, i, inRun) ==
  IF i > Len(s) THEN <<>>
  ELSE IF s[i] = "-" \/ IsSpace(s[i])
       THEN (IF inRun THEN <<>> ELSE <<"_">>) \o SnakeSeparators(s, i + 1, TRUE)
       ELSE <<s[i]>> \o SnakeSeparators(s, i + 1, FALSE)

toSnakeCase(str) ==
  ToLowerCase(SnakeSeparators(SnakeHumps(SnakeAcronyms(str, 1), 1), 1, FALSE))

IsPascalSeparator(c) == c \in {"-", "_"} \/ IsSpace(c)

\* str.split(/[-_\s]+/): the words from position i on, cur being the word
\* under construction and inRun saying that s[i-1] was a separator
RECURSIVE SplitWords(_, _, _, _)
SplitWords(s, i, cur, inRun) ==
  IF i > Len(s) THEN <<cur>>
  ELSE IF IsPascalSeparator(s[i])
       THEN IF inRun THEN SplitWords(s, i + 1, cur, TRUE)
            ELSE <<cur>> \o SplitWords(s, i + 1, <<>>, TRUE)
       ELSE SplitWords(s, i + 1, Append(cur, s[i]), FALSE)

\* word.charAt(0).toUpperCase() + word.slice(1).toLowerCase()
Capitalize(word) ==
  IF word = <<>> THEN <<>>
  ELSE <<ToUpperChar(word[1])>> \o ToLowerCase(Tail_(word, 2))

RECURSIVE JoinWords(_)
JoinWords(words) ==
  IF words = <<>> THEN <<>> ELSE Capitalize(Head(words)) \o JoinWords(Tail(words))

toPascalCase(str) == JoinWords(SplitWords(str, 1, <<>>, FALSE))

toEnumPrefix(enumName) == ToUpperCase(toSnakeCase(enumName))

IsAlnum(c) == IsLower(c) \/ IsUpper(c) \/ IsDigit(c)

\* .replace(/[^a-zA-Z0-9]+/g, "_"): the scan from position i
RECURSIVE ReplaceNonAlnum(_, _, _)
ReplaceNonAlnum(s, i, inRun) ==
  IF i > Len(s) THEN <<>>
  ELSE IF ~IsAlnum(s[i])
       THEN (IF inRun THEN <<>> ELSE <<"_">>) \o ReplaceNonAlnum(s, i + 1, TRUE)
       ELSE <<s[i]>> \o ReplaceNonAlnum(s, i + 1, FALSE)

RECURSIVE DropLeadingUnderscores(_)
DropLeadingUnderscores(s) ==
  IF s # <<>> /\ Head(s) = "_" THEN DropLeadingUnderscores(Tail(s)) ELSE s

RECURSIVE DropTrailingUnderscores(_)
DropTrailingUnderscores(s) ==
  IF s # <<>> /\ s[Len(s)] = "_"
  THEN DropTrailingUnderscores(SubSeq(s, 1, Len(s) - 1))
  ELSE s

\* .replace(/^_+|_+$/g, "")
TrimUnderscores(s) == DropTrailingUnderscores(DropLeadingUnderscores(s))

toEnumValue(value) == ToUpperCase(TrimUnderscores(ReplaceNonAlnum(value, 1, FALSE)))


\* ------------------------------------------------------------------------
\* String literals of the source
\* ------------------------------------------------------------------------

s_string == <<"s","t","r","i","n","g">>

s_number == <<"n","u","m","b","e","r">>

s_boolean == <<"b","o","o","l","e","a","n">>

s_date == <<"d","a","t","e">>

s_tag == <<"t","a","g">>

s_flag == <<"f","l","a","g">>

s_any == <<"a","n","y">>

s_double == <<"d","o","u","b","l","e">>

s_bool == <<"b","o","o","l">>

s_Timestamp == <<"g","o","o","g","l","e",".","p","r","o","t","o","b","u","f",".","T","i","m","e","s","t","a","m","p">>

s_Struct == <<"g","o","o","g","l","e",".","p","r","o","t","o","b","u","f",".","S","t","r","u","c","t">>

s_Value == <<"g","o","o","g","l","e",".","p","r","o","t","o","b","u","f",".","V","a","l","u","e">>

s_Required == <<"R","e","q","u","i","r","e","d">>

s_Optional == <<"O","p","t","i","o","n","a","l">>

s_Types == <<"T","y","p","e","s">>

s_oneOf == <<"o","n","e","O","f">>

s_package == <<"p","a","c","k","a","g","e">>

s_proto == <<"_","_","p","r","o","t","o","_","_">>

s_constructor == <<"c","o","n","s","t","r","u","c","t","o","r">>

PROTO_NUMERIC_TYPES ==
  { <<"i","n","t","3","2">>,
    <<"i","n","t","6","4">>,
    <<"u","i","n","t","3","2">>,
    <<"u","i","n","t","6","4">>,
    <<"s","i","n","t","3","2">>,
    <<"s","i","n","t","6","4">>,
    <<"f","i","x","e","d","3","2">>,
    <<"f","i","x","e","d","6","4">>,
    <<"s","f","i","x","e","d","3","2">>,
    <<"s","f","i","x","e","d","6","4">>,
    <<"f","l","o","a","t">>,
    <<"d","o","u","b","l","e">> }

\* ------------------------------------------------------------------------
\* JavaScript values
\* ------------------------------------------------------------------------

Str(s) == [k |-> "str", v |-> s]

Num(n) == [k |-> "num", v |-> n]

Arr(elements) == [k |-> "arr", v |-> elements]

Obj(entries) == [k |-> "obj", v |-> entries]

Other == [k |-> "other", v |-> <<>>]

Undefined == [k |-> "undef", v |-> <<>>]

IsArray(value) == value.k = "arr"

IsString(value) == value.k = "str"

IsUndefined(value) == value.k = "undef"

isRecord(value) == value.k = "obj"

\* Object.entries(obj) of a record
Entries(obj) == obj.v

HasOwn(obj, key) == \E i \in DOMAIN obj.v : obj.v[i][1] = key

OwnValue(obj, key) == obj.v[CHOOSE i \in DOMAIN obj.v : obj.v[i][1] = key][2]

\* Object.prototype, which every object literal and every parsed object
\* inherits from: it has no entries of its own that the program reads
ObjectPrototype == Obj(<<>>)

ObjectPrototypeMethods ==
  { s_constructor,
    <<"t","o","S","t","r","i","n","g">>,
    <<"v","a","l","u","e","O","f">>,
    <<"h","a","s","O","w","n","P","r","o","p","e","r","t","y">> }

\* obj[key]: the own property, or else the one inherited from Object.prototype
Get(obj, key) ==
  IF HasOwn(obj, key) THEN OwnValue(obj, key)
  ELSE IF key = s_proto THEN ObjectPrototype
  ELSE IF key \in ObjectPrototypeMethods THEN Other
  ELSE Undefined

getRecord(obj, key) ==
  LET value == Get(obj, key)
  IN  IF isRecord(value) THEN value ELSE Undefined

getString(obj, key) ==
  LET value == Get(obj, key)
  IN  IF IsString(value) THEN value ELSE Undefined

\* The decimal digits of a natural number
RECURSIVE Decimal(_)
Decimal(n) ==
  IF n < 10 THEN <<DigitSeq[n + 1]>>
  ELSE Decimal(n \div 10) \o <<DigitSeq[(n % 10) + 1]>>

\* String(element) of an array element (a string or a natural number)
String(element) ==
  IF element.k = "str" THEN element.v ELSE Decimal(element.v)

\* array.map(String)
MapString(array) == [i \in DOMAIN array.v |-> String(array.v[i])]

\* A Map, as the sequence of its <<key, value>> entries in insertion order
MapHas(map, key) == \E i \in DOMAIN map : map[i][1] = key

MapGet(map, key) == map[CHOOSE i \in DOMAIN map : map[i][1] = key][2]

\* ------------------------------------------------------------------------
\* buildTypeAliases
\* ------------------------------------------------------------------------

\* every name declared as number, a protobuf numeric type or not
IsNumberDeclared(name, value) == IsString(value) /\ value.v = s_number

IsNumericAlias(name, value) ==
  /\ IsString(value)
  /\ value.v = s_number
  /\ name \in PROTO_NUMERIC_TYPES

\* the loop over Object.entries(types), from entry i on
RECURSIVE AliasesFrom(_, _)
AliasesFrom(entries, i) ==
  IF i > Len(entries) THEN <<>>
  ELSE (IF IsNumericAlias(entries[i][1], entries[i][2])
        THEN << <<entries[i][1], entries[i][1]>> >>
        ELSE <<>>) \o AliasesFrom(entries, i + 1)

buildTypeAliases(types) == AliasesFrom(Entries(types), 1)

\* ------------------------------------------------------------------------
\* resolveSingleType and resolveType
\* A resolution returns the resolved type together with what it does to the
\* context: enum is the ProtoEnum it registers (a sequence of length 0 or 1),
\* build is the message it registers and then builds (length 0 or 1).
\* ------------------------------------------------------------------------

Resolved(type, enum, build) == [type |-> type, enum |-> enum, build |-> build]

\* the switch over the built-in scalar types
BuiltinScalar(typeName) ==
  CASE typeName = s_string  -> s_string
    [] typeName = s_number  -> s_double
    [] typeName = s_boolean -> s_bool
    [] typeName = s_date    -> s_Timestamp
    [] typeName = s_tag     -> s_Struct
    [] typeName = s_flag    -> s_bool
    [] typeName = s_any     -> s_Value
    [] OTHER                -> s_string

\* no enum is ever registered
RegisterNoEnum(enumName, values, generatedEnums_) == <<>>

\* the registration of an enum, unless its name is generated already
RegisterEnum(enumName, values, generatedEnums_) ==
  IF enumName \notin generatedEnums_
  THEN <<[name |-> enumName, values |-> values]>>
  ELSE <<>>

\* no message is ever registered
RegisterNoMessage(msgName, schema_, generatedMessages_) == <<>>

\* the registration of a message, generated already or not
RegisterMessageAgain(msgName, schema_, generatedMessages_) ==
  <<[name |-> msgName, schema |-> schema_]>>

\* the registration of a message, unless its name is generated already
RegisterMessage(msgName, schema_, generatedMessages_) ==
  IF msgName \notin generatedMessages_
  THEN <<[name |-> msgName, schema |-> schema_]>>
  ELSE <<>>

\* no mapping is ever a union
IsUnionNever(customDef) == FALSE

\* const oneOf = customDef.oneOf; Array.isArray(oneOf)
IsUnion(customDef) == IsArray(Get(customDef, s_oneOf))

resolveSingleType(typeName, ctx) ==
  IF MapHas(ctx.typeAliases, typeName)
  THEN Resolved(MapGet(ctx.typeAliases, typeName), <<>>, <<>>)
  ELSE LET customDef == Get(ctx.customTypes, typeName)
       IN  IF IsArray(customDef)
           THEN LET enumName == toPascalCase(typeName)
                IN  Resolved(enumName,
                             RegisterEnum(enumName, MapString(customDef),
                                          ctx.generatedEnums),
                             <<>>)
           ELSE IF isRecord(customDef)
           THEN IF IsUnion(customDef)
                THEN Resolved(s_Value, <<>>, <<>>)
                ELSE LET msgName == toPascalCase(typeName)
                     IN  Resolved(msgName, <<>>,
                                  RegisterMessage(msgName, customDef,
                                                  ctx.generatedMessages))
           ELSE Resolved(BuiltinScalar(typeName), <<>>, <<>>)

\* every string that ends in "[]" matches
ArrayMatchAny(s) ==
  /\ Len(s) >= 2
  /\ s[Len(s) - 1] = "["
  /\ s[Len(s)] = "]"

\* fieldType.match(/^(.+)\[\]$/): one character or more, none of them a line
\* terminator, and then "[]" at the end of the string
ArrayMatch(s) ==
  /\ Len(s) >= 3
  /\ s[Len(s) - 1] = "["
  /\ s[Len(s)] = "]"
  /\ \A i \in 1..(Len(s) - 2) : ~IsLineTerminator(s[i])

\* arrayMatch[1]
InnerType(s) == SubSeq(s, 1, Len(s) - 2)

WithRepeated(r, repeated) ==
  [type |-> r.type, repeated |-> repeated, enum |-> r.enum, build |-> r.build]

resolveType(fieldType, fieldName, parentName, ctx) ==
  IF IsArray(fieldType)
  THEN LET enumName == parentName \o toPascalCase(fieldName)
       IN  WithRepeated(Resolved(enumName,
                                 RegisterEnum(enumName, MapString(fieldType),
                                              ctx.generatedEnums),
                                 <<>>),
                        FALSE)
  ELSE IF IsString(fieldType)
  THEN IF ArrayMatch(fieldType.v)
       THEN WithRepeated(resolveSingleType(InnerType(fieldType.v), ctx), TRUE)
       ELSE WithRepeated(resolveSingleType(fieldType.v, ctx), FALSE)
  ELSE IF isRecord(fieldType)
  THEN LET msgName == parentName \o toPascalCase(fieldName)
       IN  WithRepeated(Resolved(msgName, <<>>,
                                 RegisterMessage(msgName, fieldType,
                                                 ctx.generatedMessages)),
                        FALSE)
  ELSE WithRepeated(Resolved(s_string, <<>>, <<>>), FALSE)

\* ------------------------------------------------------------------------
\* generateProtoFile
\* A line of the output is the sequence of the pieces its template literal
\* puts together: string literals of the source, names, numbers.  The empty
\* line is <<>>.  The text returned is lines.join("\n").
\* ------------------------------------------------------------------------

SyntaxLine == <<"syntax = \"proto3\";">>

BlankLine == <<>>

PackageLine(name) == <<"package ", name, ";">>

TimestampImport == <<"import \"google/protobuf/timestamp.proto\";">>

StructImport == <<"import \"google/protobuf/struct.proto\";">>

CloseLine == <<"}">>

\* if (context.packageName): undefined and the empty string are falsy
Truthy(value) == IsString(value) /\ value.v # <<>>

PackageLines(packageName_) ==
  IF Truthy(packageName_) THEN <<PackageLine(packageName_.v), BlankLine>> ELSE <<>>

\* context.messages.flatMap((m) => m.fields.map((f) => f.type))
RECURSIVE AllFieldTypes(_)
AllFieldTypes(messages_) ==
  IF messages_ = <<>> THEN <<>>
  ELSE [i \in DOMAIN Head(messages_).fields |-> Head(messages_).fields[i].type]
         \o AllFieldTypes(Tail(messages_))

NeedsTimestamp(messages_) ==
  \E i \in DOMAIN AllFieldTypes(messages_) : AllFieldTypes(messages_)[i] = s_Timestamp

\* the struct import for Struct alone
NeedsStructOnly(messages_) ==
  \E i \in DOMAIN AllFieldTypes(messages_) : AllFieldTypes(messages_)[i] = s_Struct

NeedsStruct(messages_) ==
  \E i \in DOMAIN AllFieldTypes(messages_) :
     \/ AllFieldTypes(messages_)[i] = s_Struct
     \/ AllFieldTypes(messages_)[i] = s_Value

ImportLines(messages_) ==
  (IF NeedsTimestamp(messages_) THEN <<TimestampImport>> ELSE <<>>)
    \o (IF NeedsStruct(messages_) THEN <<StructImport>> ELSE <<>>)
    \o (IF NeedsTimestamp(messages_) \/ NeedsStruct(messages_)
        THEN <<BlankLine>> ELSE <<>>)

EnumOpenLine(name) == <<"enum ", name, " {">>

UnspecifiedLine(prefix) == <<"  ", prefix, "_UNSPECIFIED = 0;">>

\* members numbered by their index in the values, from 0
EnumValueIndex(i) == i - 1

\* the number of the member at (1-based) position i, index + 1 of the source
EnumValueNumber(i) == i

EnumValueLine(prefix, value, i) ==
  <<"  ", prefix, "_", toEnumValue(value), " = ", EnumValueNumber(i), ";">>

EnumLines(enumDef) ==
  <<EnumOpenLine(enumDef.name), UnspecifiedLine(toEnumPrefix(enumDef.name))>>
    \o [i \in DOMAIN enumDef.values |->
          EnumValueLine(toEnumPrefix(enumDef.name), enumDef.values[i], i)]
    \o <<CloseLine, BlankLine>>

RECURSIVE AllEnumLines(_)
AllEnumLines(enums_) ==
  IF enums_ = <<>> THEN <<>>
  ELSE EnumLines(Head(enums_)) \o AllEnumLines(Tail(enums_))

MessageOpenLine(name) == <<"message ", name, " {">>

RepeatedModifier(field) == IF field.repeated THEN "repeated " ELSE ""

\* the keyword for every field that is not repeated, of either section
OptionalUnlessRepeated(field) == IF ~field.repeated THEN "optional " ELSE ""

\* the keyword for every field of the Optional section, repeated or not
OptionalInSection(field) == IF field.optional THEN "optional " ELSE ""

OptionalModifier(field) ==
  IF field.optional /\ ~field.repeated THEN "optional " ELSE ""

FieldLine(field) ==
  <<"  ", OptionalModifier(field), RepeatedModifier(field), field.type, " ",
    field.name, " = ", field.fieldNumber, ";">>

MessageLines(message) ==
  <<MessageOpenLine(message.name)>>
    \o [i \in DOMAIN message.fields |-> FieldLine(message.fields[i])]
    \o <<CloseLine, BlankLine>>

RECURSIVE AllMessageLines(_)
AllMessageLines(messages_) ==
  IF messages_ = <<>> THEN <<>>
  ELSE MessageLines(Head(messages_)) \o AllMessageLines(Tail(messages_))

\* the sections in another order: the imports before the package line
generateImportsFirst(ctx) ==
  <<SyntaxLine, BlankLine>>
    \o ImportLines(ctx.messages)
    \o PackageLines(ctx.packageName)
    \o AllEnumLines(ctx.enums)
    \o AllMessageLines(ctx.messages)

generateProtoFile(ctx) ==
  <<SyntaxLine, BlankLine>>
    \o PackageLines(ctx.packageName)
    \o ImportLines(ctx.messages)
    \o AllEnumLines(ctx.enums)
    \o AllMessageLines(ctx.messages)

\* ------------------------------------------------------------------------
\* The inputs of the model: names, schema trees, package names
\* ------------------------------------------------------------------------

n_User == <<"U","s","e","r">>

n_Address == <<"A","d","d","r","e","s","s">>

n_Status == <<"S","t","a","t","u","s">>

n_Choice == <<"C","h","o","i","c","e">>

n_Foo == <<"F","o","o">>

n_Money == <<"M","o","n","e","y">>

n_Node == <<"N","o","d","e">>

n_Pick == <<"P","i","c","k">>

n_Ping == <<"P","i","n","g">>

n_Pong == <<"P","o","n","g">>

n_int64 == <<"i","n","t","6","4">>

n_int32 == <<"i","n","t","3","2">>

\* the type expression of an array of the type
ArrayOf(typeName) == typeName \o <<"[", "]">>

f_status == <<"s","t","a","t","u","s">>

f_firstName == <<"f","i","r","s","t","N","a","m","e">>

f_XMLParser == <<"X","M","L","P","a","r","s","e","r">>

f_myField == <<"m","y","-","f","i","e","l","d">>

v_inProgress == <<"i","n","-","p","r","o","g","r","e","s","s">>

v_active == <<"a","c","t","i","v","e">>

v_onHold == <<"o","n"," ","h","o","l","d">>

v_lo == <<"l","o">>

v_hi == <<"h","i">>

p_option == <<"o","p","t",".","v","1">>

p_directive == <<"d","i","r",".","v","1">>

\* The longest root message the model draws from CoreTypes
MaxFields == 2

\* The Types block of the model's schemas
AddressType ==
  Obj(<< <<s_Required, Obj(<< <<<<"s","t","r","e","e","t">>, Str(s_string)>>,
                              <<<<"k","i","n","d">>, Str(n_Status)>> >>)>>,
         <<s_Optional, Obj(<< <<<<"t","a","g","s">>, Str(ArrayOf(s_string))>>,
                              <<<<"s","i","n","c","e">>, Str(s_date)>> >>)>> >>)

NodeType ==
  Obj(<< <<s_Required, Obj(<< <<<<"n","e","x","t">>, Str(n_Node)>> >>)>>,
         <<s_Optional, Obj(<< <<<<"k","i","d","s">>, Str(ArrayOf(n_Node))>>,
                              <<<<"k","i","n","d">>,
                                Arr(<<Str(v_lo), Str(v_hi)>>)>> >>)>> >>)

MainTypes ==
  Obj(<< <<n_int64, Str(s_number)>>,
         <<s_double, Str(s_number)>>,
         <<n_Money, Str(s_number)>>,
         <<n_int32, Str(s_string)>>,
         <<n_Status, Arr(<<Str(v_inProgress), Str(v_active)>>)>>,
         <<n_Address, AddressType>>,
         <<n_Choice, Obj(<< <<s_oneOf, Arr(<<Str(s_string), Str(s_number)>>)>> >>)>>,
         <<n_Node, NodeType>>,
         <<n_Pick, Obj(<< <<s_oneOf, Str(s_string)>> >>)>>,
         <<n_Ping, Obj(<< <<s_Required, Obj(<< <<n_Pong, Str(n_Pong)>> >>)>> >>)>>,
         <<n_Pong, Obj(<< <<s_Optional,
                            Obj(<< <<n_Ping, Str(ArrayOf(n_Ping))>> >>)>> >>)>> >>)

\* A Types block that declares custom types under the names of built-in scalars
ShadowTypes ==
  Obj(<< <<s_number, Arr(<<Str(v_lo), Str(v_hi)>>)>>,
         <<s_tag, Obj(<< <<s_Required, Obj(<< <<<<"l","a","b","e","l">>, Str(s_string)>> >>)>> >>)>> >>)

InlineEnum == Arr(<<Str(v_active), Str(v_onHold), Num(12)>>)

InlineObject ==
  Obj(<< <<s_Required, Obj(<< <<<<"h","o","s","t">>, Str(s_string)>>,
                              <<<<"m","o","d","e">>, Arr(<<Str(v_lo), Str(v_hi)>>)>> >>)>>,
         <<s_Optional, Obj(<< <<<<"p","o","r","t">>, Str(n_int64)>> >>)>> >>)

\* The field types that root messages of up to MaxFields fields are made of
CoreTypes ==
  << Str(s_string), Str(s_date), Str(s_any), Str(n_int64), Str(n_Status),
     Str(n_Address), Str(ArrayOf(n_Address)), InlineEnum, InlineObject >>

\* The field types that are tried alone, in a root message of one field
SingleTypes ==
  CoreTypes \o
  << Str(s_number), Str(s_boolean), Str(s_tag), Str(s_flag), Str(s_double),
     Str(n_Foo), Str(n_Money), Str(n_int32), Str(n_Choice), Str(n_Node),
     Str(s_proto), Str(s_constructor), Str(<<>>), Str(ArrayOf(<<>>)),
     Str(ArrayOf(s_string)), Str(ArrayOf(n_int64)), Str(ArrayOf(s_date)),
     Str(ArrayOf(s_any)), Str(ArrayOf(n_Status)), Str(ArrayOf(n_Choice)),
     Str(ArrayOf(n_Foo)), Str(ArrayOf(n_Node)),
     Str(ArrayOf(ArrayOf(n_Address))), Str(n_Pick), Str(n_Ping),
     Str(ArrayOf(<<"N", "\n">>)),
     Num(7), Other >>

\* The Types blocks; Undefined is a schema without one
TypesBlocks == <<Undefined, MainTypes, ShadowTypes>>

\* The names of the fields of a root message, by position
FieldNameAt == <<f_status, f_firstName, f_XMLParser, f_myField>>

Section(key, entries) ==
  IF entries = <<>> THEN <<>> ELSE << <<key, Obj(entries)>> >>

\* The schema tree with the given Types block and the given field types, the
\* first nRequired of them in the Required section, the others in Optional
RootSchema(types, fieldTypes, nRequired) ==
  LET entry(i) == <<FieldNameAt[i], fieldTypes[i]>>
      required == [i \in 1..nRequired |-> entry(i)]
      optional == [i \in 1..(Len(fieldTypes) - nRequired) |-> entry(nRequired + i)]
  IN  Obj((IF IsUndefined(types) THEN <<>> ELSE << <<s_Types, types>> >>)
            \o Section(s_Required, required)
            \o Section(s_Optional, optional))

\* What the external parser, parseTag, returns for a text: the tag's object
\* and the log of its diagnostics.  A text is held as this outcome.
Parsed(object) == [tag |-> object, log |-> <<>>]

Failed(diagnostics) == [tag |-> Obj(<<>>), log |-> diagnostics]

\* schemaContent: directiveLines leading "#!" lines, whose text parses as
\* directive, and the remaining text, which parses as rest
Content(directiveLines, directive, rest) ==
  [directiveLines |-> directiveLines, directive |-> directive, rest |-> rest]

PlainContent(schema_) == Content(0, Parsed(Obj(<<>>)), Parsed(schema_))

DirectiveBlocks ==
  << Parsed(Obj(<< <<s_package, Str(p_directive)>> >>)),
     Parsed(Obj(<< <<s_package, Str(<<>>)>> >>)),
     Parsed(Obj(<< <<s_package, Num(3)>> >>)),
     Parsed(Obj(<< << <<"n","a","m","e">>, Str(p_directive) >> >>)),
     Failed(<<"unexpected token", "unterminated string">>) >>

PackageOptions == <<Undefined, Str(<<>>), Str(p_option)>>

SmallSchema ==
  RootSchema(Undefined, <<InlineEnum, Str(s_date), InlineObject, Str(s_any)>>, 2)

RestTexts ==
  << Parsed(SmallSchema), Failed(<<"unexpected end of input">>) >>

\* ------------------------------------------------------------------------
\* The state
\* ------------------------------------------------------------------------

VARIABLES
  schemaContent,      \* the arguments of motlySchemaToProto
  messageName,
  options,
  pc,                 \* where the call is
  directives,         \* what parseDirectives returned
  rest,
  packageName,        \* the conversion context
  typeAliases,
  customTypes,
  messages,
  enums,
  generatedMessages,
  generatedEnums,
  stack,              \* the buildMessage calls in progress, the innermost last
  sources,            \* history: the schema object each of messages was built from
  discovered,         \* history: the messages registered, in the order of their
                      \* registration, each with the depth of the call that
                      \* registered it
  result,             \* the lines of the text returned
  thrown,             \* the error thrown
  returned            \* history: the calls that have ended, each with its
                      \* arguments and its outcome

vars ==
  <<schemaContent, messageName, options, pc, directives, rest, packageName,
    typeAliases, customTypes, messages, enums, generatedMessages,
    generatedEnums, stack, sources, discovered, result, thrown, returned>>

inputVars == <<schemaContent, messageName, options>>

contextVars ==
  <<packageName, typeAliases, customTypes, messages, enums, generatedMessages,
    generatedEnums>>

context ==
  [packageName |-> packageName, typeAliases |-> typeAliases,
   customTypes |-> customTypes, messages |-> messages, enums |-> enums,
   generatedMessages |-> generatedMessages, generatedEnums |-> generatedEnums]

\* the message of the error thrown, as the pieces of its template literal;
\* <<>> when nothing is thrown
NoError == <<>>

\* The state at the call, before its first statement
Called ==
  /\ pc = "parseDirectives"
  /\ directives = Undefined
  /\ rest = Failed(<<>>)
  /\ packageName = Undefined
  /\ typeAliases = <<>>
  /\ customTypes = Undefined
  /\ messages = <<>>
  /\ enums = <<>>
  /\ generatedMessages = {}
  /\ generatedEnums = {}
  /\ stack = <<>>
  /\ sources = <<>>
  /\ discovered = <<>>
  /\ result = <<>>
  /\ thrown = NoError
  /\ returned = <<>>

\* Root messages of up to MaxFields fields of the core types, named User or
\* Address, with the main Types block
InitSequences ==
  \E n \in 0..MaxFields :
    \E choice \in [1..n -> 1..Len(CoreTypes)], nRequired \in 0..n,
       name \in {n_User, n_Address} :
      /\ schemaContent =
           PlainContent(RootSchema(MainTypes,
                                   [i \in 1..n |-> CoreTypes[choice[i]]],
                                   nRequired))
      /\ messageName = name
      /\ options = [packageName |-> Undefined]

\* Root messages of one field, of every type of SingleTypes, under every
\* Types block
InitSingles ==
  \E t \in DOMAIN SingleTypes, b \in DOMAIN TypesBlocks, nRequired \in 0..1 :
    /\ schemaContent =
         PlainContent(RootSchema(TypesBlocks[b], <<SingleTypes[t]>>, nRequired))
    /\ messageName = n_User
    /\ options = [packageName |-> Undefined]

\* Package options, directive blocks and texts that fail to parse
InitPackages ==
  \E o \in DOMAIN PackageOptions, d \in DOMAIN DirectiveBlocks,
     r \in DOMAIN RestTexts, lines \in 0..2 :
    /\ schemaContent =
         Content(lines,
                 IF lines = 0 THEN Parsed(Obj(<<>>)) ELSE DirectiveBlocks[d],
                 RestTexts[r])
    /\ messageName = n_User
    /\ options = [packageName |-> PackageOptions[o]]

\* Root messages User whose inline types get a name that is taken: the field
\* status in both sections, as two inline enums or as two inline objects, and
\* the field status after a field of the custom type UserStatus, an enum,
\* or user-status, a message
InitCollisions ==
  LET label == Obj(<< <<s_Required,
                        Obj(<< <<<<"l","a","b","e","l">>, Str(s_string)>> >>)>> >>)
      twice(first, second) ==
        Obj(<< <<s_Required, Obj(<< <<f_status, first>> >>)>>,
               <<s_Optional, Obj(<< <<f_status, second>> >>)>> >>)
      after(typeName, customDef, inline) ==
        Obj(<< <<s_Types, Obj(<< <<typeName, customDef>> >>)>>,
               <<s_Required, Obj(<< <<f_firstName, Str(typeName)>>,
                                    <<f_status, inline>> >>)>> >>)
  IN  /\ schemaContent \in
           { PlainContent(twice(InlineEnum, Arr(<<Str(v_lo), Str(v_hi)>>))),
             PlainContent(twice(InlineObject, label)),
             PlainContent(after(<<"U","s","e","r","S","t","a","t","u","s">>,
                                Arr(<<Str(v_lo), Str(v_hi)>>), InlineEnum)),
             PlainContent(after(<<"u","s","e","r","-","s","t","a","t","u","s">>,
                                label, InlineObject)) }
      /\ messageName = n_User
      /\ options = [packageName |-> Undefined]

Init ==
  Called /\ (InitSequences \/ InitSingles \/ InitPackages \/ InitCollisions)

\* ------------------------------------------------------------------------
\* motlySchemaToProto, step by step
\* ------------------------------------------------------------------------

\* log.map((e) => e.message).join(", ")
RECURSIVE JoinMessages(_)
JoinMessages(log) ==
  IF log = <<>> THEN <<>>
  ELSE IF Len(log) = 1 THEN <<log[1]>>
  ELSE <<log[1], ", ">> \o JoinMessages(Tail(log))

\* an error whose message is the prefix alone
ErrorOfPrefix(prefix, log) == <<prefix>>

\* new Error(`${prefix}${log.map((e) => e.message).join(", ")}`)
ErrorOf(prefix, log) == <<prefix>> \o JoinMessages(log)

\* parseDirectives: no leading "#!" line, the content is parsed as it is
ParseDirectivesNone ==
  /\ pc = "parseDirectives"
  /\ schemaContent.directiveLines = 0
  /\ directives' = Obj(<<>>)
  /\ rest' = schemaContent.rest
  /\ pc' = "parseSchema"
  /\ UNCHANGED <<inputVars, returned, contextVars, stack, sources, discovered,
                 result, thrown>>

\* parseDirectives: the directive lines parse
ParseDirectivesOk ==
  /\ pc = "parseDirectives"
  /\ schemaContent.directiveLines > 0
  /\ schemaContent.directive.log = <<>>
  /\ directives' = schemaContent.directive.tag
  /\ rest' = schemaContent.rest
  /\ pc' = "parseSchema"
  /\ UNCHANGED <<inputVars, returned, contextVars, stack, sources, discovered,
                 result, thrown>>

\* parseDirectives: the directive lines do not parse
ParseDirectivesThrow ==
  /\ pc = "parseDirectives"
  /\ schemaContent.directiveLines > 0
  /\ schemaContent.directive.log # <<>>
  /\ thrown' = ErrorOf("Directive parse errors: ", schemaContent.directive.log)
  /\ pc' = "failed"
  /\ UNCHANGED <<inputVars, returned, contextVars, directives, rest, stack, sources,
                 discovered, result>>

\* the rest of the content does not parse
ParseSchemaThrow ==
  /\ pc = "parseSchema"
  /\ rest.log # <<>>
  /\ thrown' = ErrorOf("Parse errors: ", rest.log)
  /\ pc' = "failed"
  /\ UNCHANGED <<inputVars, returned, contextVars, directives, rest, stack, sources,
                 discovered, result>>

\* the directive's package name first, the option only without one
PackageNameDirectiveFirst(options_, directives_) ==
  IF IsString(getString(directives_, s_package))
  THEN getString(directives_, s_package)
  ELSE options_.packageName

\* options.packageName ?? getString(directives, "package")
PackageNameOf(options_, directives_) ==
  IF ~IsUndefined(options_.packageName)
  THEN options_.packageName
  ELSE getString(directives_, s_package)

\* getRecord(schema, "Types") || {}
TypesOf(schema_) ==
  IF isRecord(getRecord(schema_, s_Types))
  THEN getRecord(schema_, s_Types)
  ELSE Obj(<<>>)

\* let fieldNumber = 1
FirstFieldNumber == 1

\* a counter that is passed on without being incremented
NextFieldNumberStuck(fieldNumber) == fieldNumber

\* fieldNumber++
NextFieldNumber(fieldNumber) == fieldNumber + 1

\* The entries of a section of a schema object: none when the section is
\* no record
SectionEntries(schema_, key) ==
  IF isRecord(getRecord(schema_, key))
  THEN Entries(getRecord(schema_, key))
  ELSE <<>>

\* The fields the two loops of buildMessage go through, in their order
FieldEntries(schema_) ==
  [i \in DOMAIN SectionEntries(schema_, s_Required) |->
     [fieldName |-> SectionEntries(schema_, s_Required)[i][1],
      fieldType |-> SectionEntries(schema_, s_Required)[i][2],
      optional |-> FALSE]]
  \o
  [i \in DOMAIN SectionEntries(schema_, s_Optional) |->
     [fieldName |-> SectionEntries(schema_, s_Optional)[i][1],
      fieldType |-> SectionEntries(schema_, s_Optional)[i][2],
      optional |-> TRUE]]

\* A call of buildMessage at its start: no field yet, next is the position
\* of the field to process, pending the field whose nested message is built
Frame(name, schema_) ==
  [name |-> name, schema |-> schema_, fields |-> <<>>,
   fieldNumber |-> FirstFieldNumber, next |-> 1, pending |-> <<>>]

\* a context whose generated-name sets are the ones of the call before
SharedContext(typeAliases_, types, packageName_) ==
  [typeAliases |-> typeAliases_, customTypes |-> types, messages |-> <<>>,
   enums |-> <<>>, generatedMessages |-> generatedMessages,
   generatedEnums |-> generatedEnums, packageName |-> packageName_]

\* const context: ConversionContext = { ... }
ConversionContext(typeAliases_, types, packageName_) ==
  [typeAliases |-> typeAliases_, customTypes |-> types, messages |-> <<>>,
   enums |-> <<>>, generatedMessages |-> {}, generatedEnums |-> {},
   packageName |-> packageName_]

\* the rest of the content parses: the context is created and the root
\* message's buildMessage is called
ParseSchemaOk ==
  /\ pc = "parseSchema"
  /\ rest.log = <<>>
  /\ LET created == ConversionContext(buildTypeAliases(TypesOf(rest.tag)),
                                       TypesOf(rest.tag),
                                       PackageNameOf(options, directives))
     IN  /\ packageName' = created.packageName
         /\ customTypes' = created.customTypes
         /\ typeAliases' = created.typeAliases
         /\ messages' = created.messages
         /\ enums' = created.enums
         /\ generatedMessages' = created.generatedMessages
         /\ generatedEnums' = created.generatedEnums
  /\ stack' = <<Frame(messageName, rest.tag)>>
  /\ pc' = "buildMessage"
  /\ UNCHANGED <<inputVars, returned, directives, rest, sources, discovered, result, thrown>>

Top == stack[Len(stack)]

\* the buildMessage call that waits for the innermost one
Parent == stack[Len(stack) - 1]

HasNextField(frame) == frame.next <= Len(FieldEntries(frame.schema))

NextField(frame) == FieldEntries(frame.schema)[frame.next]

\* the ProtoField that processField returns
ProtoField(fieldName, type, repeated, optional, fieldNumber) ==
  [name |-> toSnakeCase(fieldName), type |-> type, repeated |-> repeated,
   optional |-> optional, fieldNumber |-> fieldNumber]

\* resolveType of the next field of the innermost buildMessage
NextResolved ==
  resolveType(NextField(Top).fieldType, NextField(Top).fieldName, Top.name, context)

EnumNames(enums_) == { enums_[i].name : i \in DOMAIN enums_ }

\* processField of a field whose type resolves without building a message
ProcessField ==
  /\ pc = "buildMessage"
  /\ HasNextField(Top)
  /\ NextResolved.build = <<>>
  /\ enums' = enums \o NextResolved.enum
  /\ generatedEnums' = generatedEnums \cup EnumNames(NextResolved.enum)
  /\ stack' =
       [stack EXCEPT ![Len(stack)] =
          [@ EXCEPT
             !.fields = Append(@, ProtoField(NextField(Top).fieldName,
                                             NextResolved.type,
                                             NextResolved.repeated,
                                             NextField(Top).optional,
                                             Top.fieldNumber)),
             !.fieldNumber = NextFieldNumber(@),
             !.next = @ + 1]]
  /\ UNCHANGED <<inputVars, returned, pc, directives, rest, packageName, typeAliases,
                 customTypes, messages, generatedMessages, sources, discovered,
                 result, thrown>>

\* processField of a field whose type is a message not generated yet: its
\* name is registered and its buildMessage is called
ProcessFieldBuild ==
  /\ pc = "buildMessage"
  /\ HasNextField(Top)
  /\ NextResolved.build # <<>>
  /\ generatedMessages' = generatedMessages \cup {NextResolved.build[1].name}
  /\ stack' =
       Append([stack EXCEPT ![Len(stack)] =
                 [@ EXCEPT
                    !.pending = <<[fieldName |-> NextField(Top).fieldName,
                                   type |-> NextResolved.type,
                                   repeated |-> NextResolved.repeated,
                                   optional |-> NextField(Top).optional,
                                   fieldNumber |-> Top.fieldNumber]>>,
                    !.fieldNumber = NextFieldNumber(@),
                    !.next = @ + 1]],
              Frame(NextResolved.build[1].name, NextResolved.build[1].schema))
  /\ discovered' =
       Append(discovered,
              [name |-> NextResolved.build[1].name, depth |-> Len(stack)])
  /\ UNCHANGED <<inputVars, returned, pc, directives, rest, packageName, typeAliases,
                 customTypes, messages, enums, generatedEnums, sources, result,
                 thrown>>

\* { name, fields } of a buildMessage that went through all its fields
ProtoMessage(frame) == [name |-> frame.name, fields |-> frame.fields]

\* a nested buildMessage returns: its message is pushed and the field that
\* waited for it joins the fields of its parent
ReturnMessage ==
  /\ pc = "buildMessage"
  /\ Len(stack) > 1
  /\ ~HasNextField(Top)
  /\ messages' = Append(messages, ProtoMessage(Top))
  /\ sources' = Append(sources, Top.schema)
  /\ stack' =
       [SubSeq(stack, 1, Len(stack) - 1) EXCEPT ![Len(stack) - 1] =
          [@ EXCEPT
             !.fields = Append(@, ProtoField(Parent.pending[1].fieldName,
                                             Parent.pending[1].type,
                                             Parent.pending[1].repeated,
                                             Parent.pending[1].optional,
                                             Parent.pending[1].fieldNumber)),
             !.pending = <<>>]]
  /\ UNCHANGED <<inputVars, returned, pc, directives, rest, packageName, typeAliases,
                 customTypes, enums, generatedMessages, generatedEnums,
                 discovered, result, thrown>>

\* the root message behind the others
PushLast(messages_, rootMessage) == Append(messages_, rootMessage)

\* context.messages.unshift(rootMessage)
Unshift(messages_, rootMessage) == <<rootMessage>> \o messages_

\* the root buildMessage returns and the custom types are dropped
ReturnRootDropping ==
  /\ pc = "buildMessage"
  /\ Len(stack) = 1
  /\ ~HasNextField(Top)
  /\ messages' = Unshift(messages, ProtoMessage(Top))
  /\ sources' = <<Top.schema>> \o sources
  /\ stack' = <<>>
  /\ pc' = "generateProtoFile"
  /\ customTypes' = Obj(<<>>)
  /\ UNCHANGED <<inputVars, returned, directives, rest, packageName, typeAliases,
                 enums, generatedMessages, generatedEnums, discovered, result,
                 thrown>>

\* the root buildMessage returns
ReturnRoot ==
  /\ pc = "buildMessage"
  /\ Len(stack) = 1
  /\ ~HasNextField(Top)
  /\ messages' = Unshift(messages, ProtoMessage(Top))
  /\ sources' = <<Top.schema>> \o sources
  /\ stack' = <<>>
  /\ pc' = "generateProtoFile"
  /\ UNCHANGED <<inputVars, returned, directives, rest, packageName, typeAliases,
                 customTypes, enums, generatedMessages, generatedEnums,
                 discovered, result, thrown>>

\* return generateProtoFile(context)
GenerateProtoFile ==
  /\ pc = "generateProtoFile"
  /\ result' = generateProtoFile(context)
  /\ pc' = "done"
  /\ UNCHANGED <<inputVars, returned, contextVars, directives, rest, stack, sources,
                 discovered, thrown>>

Next ==
  \/ ParseDirectivesNone
  \/ ParseDirectivesOk
  \/ ParseDirectivesThrow
  \/ ParseSchemaThrow
  \/ ParseSchemaOk
  \/ ProcessField
  \/ ProcessFieldBuild
  \/ ReturnMessage
  \/ ReturnRoot
  \/ GenerateProtoFile

Spec == Init /\ [][Next]_vars

\* ------------------------------------------------------------------------
\* Calls of motlySchemaToProto one after the other
\* ------------------------------------------------------------------------

MaxCalls == 3

\* The arguments of the calls: a directive block and a schema text that fail
\* to parse, and schemas that share the names of their messages and enums
CallInputs ==
  << [schemaContent |-> Content(1, DirectiveBlocks[5], RestTexts[1]),
      messageName |-> n_User, options |-> [packageName |-> Undefined]],
     [schemaContent |-> Content(0, Parsed(Obj(<<>>)), RestTexts[2]),
      messageName |-> n_User, options |-> [packageName |-> Undefined]],
     [schemaContent |-> Content(1, DirectiveBlocks[1], RestTexts[1]),
      messageName |-> n_User, options |-> [packageName |-> Str(p_option)]],
     [schemaContent |->
        PlainContent(RootSchema(MainTypes, <<Str(n_Status), Str(n_Node)>>, 1)),
      messageName |-> n_User, options |-> [packageName |-> Undefined]],
     [schemaContent |->
        PlainContent(RootSchema(MainTypes, <<Str(n_Node), InlineEnum>>, 0)),
      messageName |-> n_User, options |-> [packageName |-> Undefined]],
     [schemaContent |->
        PlainContent(RootSchema(ShadowTypes, <<InlineEnum, Str(s_tag)>>, 2)),
      messageName |-> n_Node, options |-> [packageName |-> Undefined]] >>

Arguments(input) ==
  /\ schemaContent = input.schemaContent
  /\ messageName = input.messageName
  /\ options = input.options

InitCalls == Called /\ \E c \in DOMAIN CallInputs : Arguments(CallInputs[c])

\* the arguments and the outcome of the call that has ended
Outcome ==
  [schemaContent |-> schemaContent, messageName |-> messageName,
   options |-> options, result |-> result, thrown |-> thrown]

\* the call has returned or thrown, and motlySchemaToProto is called again:
\* the variables of the call before hold what it left in them
CallAgain ==
  /\ pc \in {"done", "failed"}
  /\ Len(returned) < MaxCalls - 1
  /\ returned' = Append(returned, Outcome)
  /\ \E c \in DOMAIN CallInputs :
       /\ schemaContent' = CallInputs[c].schemaContent
       /\ messageName' = CallInputs[c].messageName
       /\ options' = CallInputs[c].options
  /\ pc' = "parseDirectives"
  /\ sources' = <<>>
  /\ discovered' = <<>>
  /\ result' = <<>>
  /\ thrown' = NoError
  /\ UNCHANGED <<contextVars, directives, rest, stack>>

NextCalls == Next \/ CallAgain

SpecCalls == InitCalls /\ [][NextCalls]_vars

\* ------------------------------------------------------------------------
\* Reading the returned text
\* ------------------------------------------------------------------------

Done == pc = "done"

IsBlankLine(line) == Len(line) = 0

IsSyntaxLine(line) == Len(line) = 1 /\ line[1] = "syntax = \"proto3\";"

IsPackageLine(line) == Len(line) = 3 /\ line[1] = "package "

IsTimestampImport(line) ==
  Len(line) = 1 /\ line[1] = "import \"google/protobuf/timestamp.proto\";"

IsStructImport(line) ==
  Len(line) = 1 /\ line[1] = "import \"google/protobuf/struct.proto\";"

IsImportLine(line) == IsTimestampImport(line) \/ IsStructImport(line)

IsEnumOpen(line) == Len(line) = 3 /\ line[1] = "enum "

IsMessageOpen(line) == Len(line) = 3 /\ line[1] = "message "

IsCloseLine(line) == Len(line) = 1 /\ line[1] = "}"

IsUnspecifiedMember(line) ==
  Len(line) = 3 /\ line[1] = "  " /\ line[3] = "_UNSPECIFIED = 0;"

IsValueMember(line) ==
  Len(line) = 7 /\ line[1] = "  " /\ line[3] = "_" /\ line[5] = " = " /\ line[7] = ";"

IsFieldLine(line) ==
  Len(line) = 9 /\ line[1] = "  " /\ line[5] = " " /\ line[7] = " = " /\ line[9] = ";"

MessageOpenLines == { i \in DOMAIN result : IsMessageOpen(result[i]) }

EnumOpenLines == { i \in DOMAIN result : IsEnumOpen(result[i]) }

CloseLines == { i \in DOMAIN result : IsCloseLine(result[i]) }

\* the n-th smallest element of a set of line numbers
Nth(S, n) == CHOOSE i \in S : Cardinality({ j \in S : j <= i }) = n

\* the line that opens the m-th message block, the e-th enum block
MessageOpenAt(m) == Nth(MessageOpenLines, m)

EnumOpenAt(e) == Nth(EnumOpenLines, e)

\* the line that closes the block opened at line h
CloseAfter(h) == Nth({ i \in CloseLines : i > h }, 1)

\* the j-th line inside the m-th message block
FieldLineAt(m, j) == result[MessageOpenAt(m) + j]

\* what a schema object declares: its Required entries, then its Optional ones
Declared(schema_) ==
  SectionEntries(schema_, s_Required) \o SectionEntries(schema_, s_Optional)

DeclaredRequired(schema_) == Len(SectionEntries(schema_, s_Required))

\* the declared fields of the emitted messages, as <<message, position>>
DeclaredFields ==
  UNION { { <<m, j>> : j \in 1..Len(Declared(sources[m])) } : m \in DOMAIN sources }

DeclaredType(m, j) == Declared(sources[m])[j][2]

\* a string type expression "T[]", T a name: not empty and within one line
IsArrayExpression(fieldType) ==
  /\ IsString(fieldType)
  /\ Len(fieldType.v) > 2
  /\ SubSeq(fieldType.v, Len(fieldType.v) - 1, Len(fieldType.v)) = <<"[", "]">>
  /\ \A i \in 1..(Len(fieldType.v) - 2) :
       fieldType.v[i] \notin {"\n", "\r"}

\* the element type T of "T[]"
ElementType(fieldType) == SubSeq(fieldType.v, 1, Len(fieldType.v) - 2)

\* ------------------------------------------------------------------------
\* C1: every emitted message holds the Required fields and then the Optional
\* fields of the schema object it was built from, in declaration order, and
\* the i-th of them carries the number i, in the context and in the text;
\* the fields of a message under construction are numbered 1, 2, ... as well,
\* also while a nested message is built.
\* ------------------------------------------------------------------------

NumberedAsDeclared(fields, schema_) ==
  /\ Len(fields) = Len(Declared(schema_))
  /\ \A i \in DOMAIN fields :
       /\ fields[i].fieldNumber = i
       /\ fields[i].name = toSnakeCase(Declared(schema_)[i][1])
       /\ fields[i].optional = (i > DeclaredRequired(schema_))

C1_FieldNumbering ==
  /\ Len(sources) = Len(messages)
  /\ \A m \in DOMAIN messages : NumberedAsDeclared(messages[m].fields, sources[m])
  /\ \A f \in DOMAIN stack :
       /\ \A i \in DOMAIN stack[f].fields : stack[f].fields[i].fieldNumber = i
       /\ stack[f].pending # <<>> =>
            stack[f].pending[1].fieldNumber = Len(stack[f].fields) + 1
  /\ Done =>
       /\ Cardinality(MessageOpenLines) = Len(messages)
       /\ \A m \in DOMAIN messages :
            /\ result[MessageOpenAt(m)][2] = messages[m].name
            /\ CloseAfter(MessageOpenAt(m)) =
                 MessageOpenAt(m) + Len(Declared(sources[m])) + 1
            /\ \A j \in 1..Len(Declared(sources[m])) :
                 /\ IsFieldLine(FieldLineAt(m, j))
                 /\ FieldLineAt(m, j)[8] = j
                 /\ FieldLineAt(m, j)[6] = toSnakeCase(Declared(sources[m])[j][1])

\* a root message whose first field made the Address message be built before
\* its own second, Optional, field got number 2
C1_Witness ==
  /\ Done
  /\ Len(messages) >= 2
  /\ Len(messages[1].fields) = 2
  /\ messages[1].fields[1].type = n_Address
  /\ ~messages[1].fields[1].optional
  /\ messages[1].fields[2].fieldNumber = 2
  /\ messages[1].fields[2].optional
  /\ messages[2].name = n_Address
  /\ Len(messages[2].fields) = 4
  /\ messages[2].fields[3].optional
  /\ FieldLineAt(2, 4)[8] = 4

\* ------------------------------------------------------------------------
\* C2: a named custom type that two or more fields refer to, bare or as the
\* element of an array, is declared by exactly one message or enum block of
\* the text.
\* ------------------------------------------------------------------------

\* a Types entry that stands for a message or an enum: a sequence, or a
\* mapping without the union marker
DeclaresBlock(value) ==
  IsArray(value) \/ (isRecord(value) /\ ~IsArray(Get(value, s_oneOf)))

\* the declared fields, of any emitted message, that refer to the type
TypeReferences(typeName) ==
  { f \in DeclaredFields :
      /\ IsString(DeclaredType(f[1], f[2]))
      /\ \/ DeclaredType(f[1], f[2]).v = typeName
         \/ /\ IsArrayExpression(DeclaredType(f[1], f[2]))
            /\ ElementType(DeclaredType(f[1], f[2])) = typeName }

\* the lines that open a message or an enum of the name
DeclarationsOf(name) ==
  { i \in MessageOpenLines \cup EnumOpenLines : result[i][2] = name }

C2_OneDeclaration ==
  Done =>
    \A i \in DOMAIN Entries(customTypes) :
      ( /\ DeclaresBlock(Entries(customTypes)[i][2])
        /\ Cardinality(TypeReferences(Entries(customTypes)[i][1])) >= 2 )
      => Cardinality(DeclarationsOf(toPascalCase(Entries(customTypes)[i][1]))) = 1

\* ------------------------------------------------------------------------
\* C3: a field declared with an array type "T[]" is rendered with the
\* repeated modifier and without the optional modifier, in the Required and
\* in the Optional section, whatever T resolves to.
\* ------------------------------------------------------------------------

C3_ArrayRepeated ==
  Done =>
    \A f \in DeclaredFields :
      IsArrayExpression(DeclaredType(f[1], f[2])) =>
        /\ IsFieldLine(FieldLineAt(f[1], f[2]))
        /\ FieldLineAt(f[1], f[2])[3] = "repeated "
        /\ FieldLineAt(f[1], f[2])[2] = ""

\* an array of a union type, declared in the Optional section of the root
C3_Witness ==
  /\ Done
  /\ DeclaredRequired(sources[1]) = 0
  /\ Len(Declared(sources[1])) = 1
  /\ IsString(DeclaredType(1, 1))
  /\ DeclaredType(1, 1).v = ArrayOf(n_Choice)
  /\ FieldLineAt(1, 1)[2] = ""
  /\ FieldLineAt(1, 1)[3] = "repeated "
  /\ FieldLineAt(1, 1)[4] = s_Value

\* ------------------------------------------------------------------------
\* C4: an emitted enum of k values is a block of k + 1 members: first
\* <PREFIX>_UNSPECIFIED = 0, PREFIX the upper snake case of the enum's name,
\* then for i = 1..k the member <PREFIX>_<sanitized i-th value> = i; the
\* values are those of a sequence of the Types block or of an inline literal.
\* ------------------------------------------------------------------------

\* the enum is the one a sequence of the Types block declares
FromNamedEnum(enumDef) ==
  \E i \in DOMAIN Entries(customTypes) :
    /\ IsArray(Entries(customTypes)[i][2])
    /\ toPascalCase(Entries(customTypes)[i][1]) = enumDef.name
    /\ MapString(Entries(customTypes)[i][2]) = enumDef.values

\* the enum is the one an inline literal of a declared field declares
FromInlineEnum(enumDef) ==
  \E f \in DeclaredFields :
    /\ IsArray(DeclaredType(f[1], f[2]))
    /\ messages[f[1]].name \o toPascalCase(Declared(sources[f[1]])[f[2]][1])
         = enumDef.name
    /\ MapString(DeclaredType(f[1], f[2])) = enumDef.values

EnumBlockAsDeclared(e) ==
  /\ result[EnumOpenAt(e)][2] = enums[e].name
  /\ IsUnspecifiedMember(result[EnumOpenAt(e) + 1])
  /\ result[EnumOpenAt(e) + 1][2] = ToUpperCase(toSnakeCase(enums[e].name))
  /\ \A i \in 1..Len(enums[e].values) :
       /\ IsValueMember(result[EnumOpenAt(e) + 1 + i])
       /\ result[EnumOpenAt(e) + 1 + i][2] = ToUpperCase(toSnakeCase(enums[e].name))
       /\ result[EnumOpenAt(e) + 1 + i][4] = toEnumValue(enums[e].values[i])
       /\ result[EnumOpenAt(e) + 1 + i][6] = i
  /\ CloseAfter(EnumOpenAt(e)) = EnumOpenAt(e) + Len(enums[e].values) + 2

C4_EnumMembers ==
  Done =>
    /\ Cardinality(EnumOpenLines) = Len(enums)
    /\ \A e \in DOMAIN enums :
         /\ FromNamedEnum(enums[e]) \/ FromInlineEnum(enums[e])
         /\ EnumBlockAsDeclared(e)

\* the inline enum [active, "on hold", 12] at field status of the root User,
\* and the named enum Status = ["in-progress", active] after it
C4_Witness ==
  /\ Done
  /\ Len(enums) = 2
  /\ enums[1].name = <<"U","s","e","r","S","t","a","t","u","s">>
  /\ Len(enums[1].values) = 3
  /\ result[EnumOpenAt(1) + 1] =
       <<"  ", <<"U","S","E","R","_","S","T","A","T","U","S">>, "_UNSPECIFIED = 0;">>
  /\ result[EnumOpenAt(1) + 3][4] = <<"O","N","_","H","O","L","D">>
  /\ result[EnumOpenAt(1) + 3][6] = 2
  /\ result[EnumOpenAt(1) + 4][4] = <<"1","2">>
  /\ result[EnumOpenAt(1) + 4][6] = 3
  /\ IsCloseLine(result[EnumOpenAt(1) + 5])
  /\ enums[2].name = n_Status
  /\ result[EnumOpenAt(2) + 2][4] = <<"I","N","_","P","R","O","G","R","E","S","S">>
  /\ result[EnumOpenAt(2) + 2][6] = 1

\* ------------------------------------------------------------------------
\* C5: the package option and the package directive
\* ------------------------------------------------------------------------

PackageLineNumbers == { i \in DOMAIN result : IsPackageLine(result[i]) }

\* the call was given a package option
OptionGiven == ~IsUndefined(options.packageName)

\* the leading directive lines of the schema text hold a package directive
DirectiveGiven == HasOwn(directives, s_package)

\* the text of a directive's value
DirectiveText ==
  IF IsString(OwnValue(directives, s_package))
  THEN OwnValue(directives, s_package).v
  ELSE Decimal(OwnValue(directives, s_package).v)

\* the output has one package declaration, and it names the name
DeclaresPackage(name) ==
  /\ Cardinality(PackageLineNumbers) = 1
  /\ \A i \in PackageLineNumbers : result[i][2] = name

\* C5 as stated: with both the option and the directive, the package
\* declaration names the option's value and the directive's name is not in the
\* output; with the directive alone, the declaration names the directive's
\* value.
C5_OptionAlwaysWins ==
  Done =>
    /\ (OptionGiven /\ DirectiveGiven) =>
         /\ DeclaresPackage(options.packageName.v)
         /\ DirectiveText # options.packageName.v =>
              \A i \in PackageLineNumbers : result[i][2] # DirectiveText
    /\ (~OptionGiven /\ DirectiveGiven) => DeclaresPackage(DirectiveText)

\* C5, amended: a given option decides alone, also against a directive: the
\* output declares the option's value when it is not empty and has no package
\* declaration when it is empty, and the directive's name is not in the
\* output; without an option the output declares the directive's value when
\* that is a non-empty string, and has no package declaration otherwise.
C5_OptionPrecedence ==
  Done =>
    /\ OptionGiven =>
         /\ IF options.packageName.v # <<>>
            THEN DeclaresPackage(options.packageName.v)
            ELSE PackageLineNumbers = {}
         /\ (DirectiveGiven /\ DirectiveText # options.packageName.v) =>
              \A i \in PackageLineNumbers : result[i][2] # DirectiveText
    /\ ~OptionGiven =>
         IF /\ DirectiveGiven
            /\ IsString(OwnValue(directives, s_package))
            /\ OwnValue(directives, s_package).v # <<>>
         THEN DeclaresPackage(OwnValue(directives, s_package).v)
         ELSE PackageLineNumbers = {}

\* the option opt.v1 against the directive package = "dir.v1"
C5_Witness ==
  /\ Done
  /\ OptionGiven
  /\ options.packageName.v = p_option
  /\ DirectiveGiven
  /\ DirectiveText = p_directive
  /\ result[3] = <<"package ", p_option, ";">>
  /\ Cardinality(PackageLineNumbers) = 1

\* ------------------------------------------------------------------------
\* C6: the layout of the returned text
\* ------------------------------------------------------------------------

\* the section a line opens: 1 the syntax line, 2 the package line, 3 an
\* import line, 4 the header of an enum block, 5 the header of a message
\* block, 0 any other line
SectionOf(line) ==
  CASE IsSyntaxLine(line)  -> 1
    [] IsPackageLine(line) -> 2
    [] IsImportLine(line)  -> 3
    [] IsEnumOpen(line)    -> 4
    [] IsMessageOpen(line) -> 5
    [] OTHER               -> 0

\* the sections come in their order, the syntax line first; there is one
\* syntax line, at most one package line and at most one import of each kind,
\* the timestamp import before the struct import
SectionsInOrder ==
  /\ Len(result) >= 1
  /\ IsSyntaxLine(result[1])
  /\ \A i, j \in DOMAIN result :
       (i < j /\ SectionOf(result[i]) > 0 /\ SectionOf(result[j]) > 0) =>
         /\ SectionOf(result[i]) <= SectionOf(result[j])
         /\ SectionOf(result[j]) > 2 \/ SectionOf(result[i]) < SectionOf(result[j])
         /\ (IsImportLine(result[i]) /\ IsImportLine(result[j])) =>
              IsTimestampImport(result[i]) /\ IsStructImport(result[j])

\* a line inside a block: a member of an enum, a field of a message, or the
\* closing brace, after the header of its block
InsideBlock(i) ==
  \E h \in EnumOpenLines \cup MessageOpenLines :
    /\ h < i
    /\ \E c \in CloseLines :
         /\ i <= c
         /\ \A l \in (h + 1)..(c - 1) :
              IF IsEnumOpen(result[h])
              THEN IsUnspecifiedMember(result[l]) \/ IsValueMember(result[l])
              ELSE IsFieldLine(result[l])

\* every line is blank, opens a section or a block, or lies inside a block
BlocksWellFormed ==
  \A i \in DOMAIN result :
    \/ IsBlankLine(result[i])
    \/ SectionOf(result[i]) > 0
    \/ InsideBlock(i)

\* the last line of a section or of a block
EndsSection(i) ==
  \/ IsSyntaxLine(result[i])
  \/ IsPackageLine(result[i])
  \/ /\ IsImportLine(result[i])
     /\ ~(i < Len(result) /\ IsImportLine(result[i + 1]))
  \/ IsCloseLine(result[i])

\* one blank line after every section and every block, and no other blank line
BlankLinesSeparate ==
  /\ \A i \in DOMAIN result : EndsSection(i) => i < Len(result)
  /\ \A i \in DOMAIN result :
       IsBlankLine(result[i]) <=> (i > 1 /\ EndsSection(i - 1))

\* a package name that is not empty was supplied, by option or by directive
PackageSupplied ==
  \/ OptionGiven /\ options.packageName.v # <<>>
  \/ /\ DirectiveGiven
     /\ IsString(OwnValue(directives, s_package))
     /\ OwnValue(directives, s_package).v # <<>>

\* the package name in effect is not empty: the option's when an option is
\* given, the directive's string otherwise
PackageInEffect ==
  IF OptionGiven THEN options.packageName.v # <<>>
  ELSE /\ DirectiveGiven
       /\ IsString(OwnValue(directives, s_package))
       /\ OwnValue(directives, s_package).v # <<>>

\* C6 as stated: the text begins with the syntax line; syntax line, package
\* line, imports, enum blocks, message blocks come in this order, each section
\* and block followed by one blank line; the package line is there if and only
\* if a package name was supplied by option or directive.
C6_LayoutPackageSupplied ==
  Done =>
    /\ SectionsInOrder
    /\ BlocksWellFormed
    /\ BlankLinesSeparate
    /\ (PackageLineNumbers # {}) <=> PackageSupplied

\* C6, amended: the same layout, the package line being there if and only if
\* the package name in effect (the option's value when an option is given,
\* also an empty one, the directive's string value otherwise) is not empty.
C6_Layout ==
  Done =>
    /\ SectionsInOrder
    /\ BlocksWellFormed
    /\ BlankLinesSeparate
    /\ (PackageLineNumbers # {}) <=> PackageInEffect

\* a text with all five sections: package line, both imports, two enum blocks
\* and two message blocks, a blank line at its end
C6_Witness ==
  /\ Done
  /\ Len(result) >= 20
  /\ IsSyntaxLine(result[1])
  /\ IsBlankLine(result[2])
  /\ result[3] = <<"package ", p_directive, ";">>
  /\ IsBlankLine(result[4])
  /\ IsTimestampImport(result[5])
  /\ IsStructImport(result[6])
  /\ IsBlankLine(result[7])
  /\ IsEnumOpen(result[8])
  /\ Cardinality(EnumOpenLines) = 2
  /\ Cardinality(MessageOpenLines) = 2
  /\ IsCloseLine(result[Len(result) - 1])
  /\ IsBlankLine(result[Len(result)])

\* ------------------------------------------------------------------------
\* C7: the type alias table, and how aliases and number are rendered
\* ------------------------------------------------------------------------

\* the conversion context exists
ContextCreated == pc \in {"buildMessage", "generateProtoFile", "done"}

\* the name a string type expression resolves: the element type of "T[]",
\* the expression itself otherwise
TypeNameOf(fieldType) ==
  IF IsArrayExpression(fieldType) THEN ElementType(fieldType) ELSE fieldType.v

\* the declared fields whose type expression names the type
FieldsOfType(typeName) ==
  { f \in DeclaredFields :
      /\ IsString(DeclaredType(f[1], f[2]))
      /\ TypeNameOf(DeclaredType(f[1], f[2])) = typeName }

\* the Types block declares the name as a sequence or as a mapping
DeclaredAsBlock(typeName) ==
  /\ HasOwn(customTypes, typeName)
  /\ IsArray(OwnValue(customTypes, typeName)) \/ isRecord(OwnValue(customTypes, typeName))

\* the table holds exactly the names declared as number that are protobuf
\* numeric types, each once and mapped to itself
AliasTableExact ==
  /\ \A i \in DOMAIN typeAliases :
       /\ typeAliases[i][2] = typeAliases[i][1]
       /\ typeAliases[i][1] \in PROTO_NUMERIC_TYPES
       /\ HasOwn(customTypes, typeAliases[i][1])
       /\ IsString(OwnValue(customTypes, typeAliases[i][1]))
       /\ OwnValue(customTypes, typeAliases[i][1]).v = s_number
       /\ \A j \in DOMAIN typeAliases : typeAliases[j][1] = typeAliases[i][1] => j = i
  /\ \A i \in DOMAIN Entries(customTypes) :
       ( /\ IsString(Entries(customTypes)[i][2])
         /\ Entries(customTypes)[i][2].v = s_number
         /\ Entries(customTypes)[i][1] \in PROTO_NUMERIC_TYPES )
       => MapHas(typeAliases, Entries(customTypes)[i][1])

\* a field whose type is an alias of the table is rendered with that type
AliasesRendered ==
  \A i \in DOMAIN typeAliases :
    \A f \in FieldsOfType(typeAliases[i][1]) :
      /\ FieldLineAt(f[1], f[2])[4] = typeAliases[i][1]
      /\ typeAliases[i][1] # s_double => FieldLineAt(f[1], f[2])[4] # s_double

\* C7 as stated: the table is exact, a field of an alias type is rendered with
\* that numeric type, and a field of type number is rendered as double.
C7_AliasesAndNumber ==
  /\ ContextCreated => AliasTableExact
  /\ Done =>
       /\ AliasesRendered
       /\ \A f \in FieldsOfType(s_number) : FieldLineAt(f[1], f[2])[4] = s_double

\* C7, amended: the table is exact, a field of an alias type is rendered with
\* that numeric type, and a field of type number is rendered as double unless
\* the Types block declares the name number itself as a sequence or a mapping.
C7_Aliases ==
  /\ ContextCreated => AliasTableExact
  /\ Done =>
       /\ AliasesRendered
       /\ ~DeclaredAsBlock(s_number) =>
            \A f \in FieldsOfType(s_number) : FieldLineAt(f[1], f[2])[4] = s_double

\* of int64 = number, double = number, Money = number and int32 = string the
\* table admits int64 and double, and a field of type int64 is rendered so
C7_Witness ==
  /\ Done
  /\ typeAliases = << <<n_int64, n_int64>>, <<s_double, s_double>> >>
  /\ HasOwn(customTypes, n_Money)
  /\ OwnValue(customTypes, n_Money).v = s_number
  /\ Len(Declared(sources[1])) = 1
  /\ IsString(DeclaredType(1, 1))
  /\ DeclaredType(1, 1).v = n_int64
  /\ FieldLineAt(1, 1)[4] = n_int64

\* ------------------------------------------------------------------------
\* C8: the scalar table
\* ------------------------------------------------------------------------

\* the fixed table, and string for every name outside it
ScalarTable(typeName) ==
  IF typeName = <<"s","t","r","i","n","g">> THEN <<"s","t","r","i","n","g">>
  ELSE IF typeName = <<"n","u","m","b","e","r">> THEN <<"d","o","u","b","l","e">>
  ELSE IF typeName = <<"b","o","o","l","e","a","n">> THEN <<"b","o","o","l">>
  ELSE IF typeName = <<"d","a","t","e">> THEN s_Timestamp
  ELSE IF typeName = <<"t","a","g">> THEN s_Struct
  ELSE IF typeName = <<"f","l","a","g">> THEN <<"b","o","o","l">>
  ELSE IF typeName = <<"a","n","y">> THEN s_Value
  ELSE <<"s","t","r","i","n","g">>

\* C8 as stated: a type name that is not in the alias table and that the Types
\* block does not declare as a sequence or a mapping is rendered as the scalar
\* table gives it, string for every name outside the table, and the call
\* returns.
C8_ScalarTable ==
  /\ Done =>
       \A f \in DeclaredFields :
         ( /\ IsString(DeclaredType(f[1], f[2]))
           /\ ~MapHas(typeAliases, TypeNameOf(DeclaredType(f[1], f[2])))
           /\ ~DeclaredAsBlock(TypeNameOf(DeclaredType(f[1], f[2]))) )
         => FieldLineAt(f[1], f[2])[4] = ScalarTable(TypeNameOf(DeclaredType(f[1], f[2])))
  /\ ContextCreated => thrown = NoError

\* ------------------------------------------------------------------------
\* C9: the imports of the well-known types
\* ------------------------------------------------------------------------

TimestampImportLines == { i \in DOMAIN result : IsTimestampImport(result[i]) }

StructImportLines == { i \in DOMAIN result : IsStructImport(result[i]) }

\* some field of some emitted message has the resolved type
SomeFieldOfType(type) ==
  \E m \in DOMAIN messages :
    \E j \in DOMAIN messages[m].fields : messages[m].fields[j].type = type

\* C9: the text imports timestamp.proto if and only if a field of an emitted
\* message resolved to google.protobuf.Timestamp, and struct.proto if and only
\* if a field resolved to google.protobuf.Struct or google.protobuf.Value; each
\* import is there once, the timestamp import before the struct import.
C9_Imports ==
  Done =>
    /\ (TimestampImportLines # {}) <=> SomeFieldOfType(s_Timestamp)
    /\ (StructImportLines # {}) <=> (SomeFieldOfType(s_Struct) \/ SomeFieldOfType(s_Value))
    /\ Cardinality(TimestampImportLines) <= 1
    /\ Cardinality(StructImportLines) <= 1
    /\ \A i \in TimestampImportLines : \A j \in StructImportLines : i < j

\* a date field of the nested message Address and a field of the root that
\* resolved to google.protobuf.Value: both imports, in order
C9_Witness ==
  /\ Done
  /\ Len(messages) = 2
  /\ messages[2].name = n_Address
  /\ messages[2].fields[4].type = s_Timestamp
  /\ ~SomeFieldOfType(s_Struct)
  /\ \E j \in DOMAIN messages[1].fields : messages[1].fields[j].type = s_Value
  /\ IsTimestampImport(result[3])
  /\ IsStructImport(result[4])
  /\ IsBlankLine(result[5])

\* ------------------------------------------------------------------------
\* C10: the optional keyword
\* ------------------------------------------------------------------------

\* C10: a field is rendered with the optional keyword if and only if it is
\* declared in the Optional section of its message and it did not resolve as
\* repeated; a field of the Required section never carries the keyword.
C10_OptionalKeyword ==
  Done =>
    \A f \in DeclaredFields :
      /\ IsFieldLine(FieldLineAt(f[1], f[2]))
      /\ FieldLineAt(f[1], f[2])[2] \in {"", "optional "}
      /\ (FieldLineAt(f[1], f[2])[2] = "optional ") <=>
           ( /\ f[2] > DeclaredRequired(sources[f[1]])
             /\ ~messages[f[1]].fields[f[2]].repeated )
      /\ f[2] <= DeclaredRequired(sources[f[1]]) => FieldLineAt(f[1], f[2])[2] = ""

\* the message Address: a Required field without the keyword, an Optional
\* repeated field without it, an Optional field with it
C10_Witness ==
  /\ Done
  /\ Len(messages) = 2
  /\ messages[2].name = n_Address
  /\ DeclaredRequired(sources[2]) = 2
  /\ FieldLineAt(2, 1)[2] = ""
  /\ FieldLineAt(2, 3)[2] = ""
  /\ FieldLineAt(2, 3)[3] = "repeated "
  /\ FieldLineAt(2, 4)[2] = "optional "
  /\ FieldLineAt(2, 4)[3] = ""

\* ------------------------------------------------------------------------
\* C11: the names of inline enums and inline objects
\* ------------------------------------------------------------------------

\* the name the m-th message block is emitted under
EmittedName(m) == result[MessageOpenAt(m)][2]

\* the name of the j-th declared field of the m-th message
DeclaredName(m, j) == Declared(sources[m])[j][1]

\* C11: an inline enum literal or an inline object at field f of message M
\* resolves to the name M followed by PascalCase(f), not repeated, M being the
\* name the enclosing message is emitted under (the root's is the name given
\* to the call), and an enum, or a message, of that name is declared in the
\* text.  Root User with status = [..] gives the enum UserStatus and a field
\* of type UserStatus.
C11_InlineNaming ==
  Done =>
    /\ EmittedName(1) = messageName
    /\ \A f \in DeclaredFields :
         (IsArray(DeclaredType(f[1], f[2])) \/ isRecord(DeclaredType(f[1], f[2]))) =>
           /\ messages[f[1]].fields[f[2]].type =
                EmittedName(f[1]) \o toPascalCase(DeclaredName(f[1], f[2]))
           /\ ~messages[f[1]].fields[f[2]].repeated
           /\ FieldLineAt(f[1], f[2])[3] = ""
           /\ FieldLineAt(f[1], f[2])[4] =
                EmittedName(f[1]) \o toPascalCase(DeclaredName(f[1], f[2]))
           /\ IsArray(DeclaredType(f[1], f[2])) =>
                \E i \in EnumOpenLines :
                  result[i][2] = messages[f[1]].fields[f[2]].type
           /\ isRecord(DeclaredType(f[1], f[2])) =>
                \E i \in MessageOpenLines :
                  result[i][2] = messages[f[1]].fields[f[2]].type
           /\ ( /\ messageName = n_User
                /\ f[1] = 1
                /\ DeclaredName(1, f[2]) = f_status ) =>
                FieldLineAt(1, f[2])[4] = <<"U","s","e","r","S","t","a","t","u","s">>

\* root User: the inline enum at status is UserStatus, the inline object at
\* XMLParser is the message UserXmlparser, and the inline enum at its field
\* mode is UserXmlparserMode
C11_Witness ==
  /\ Done
  /\ messageName = n_User
  /\ Len(messages) = 2
  /\ Len(enums) = 2
  /\ Len(Declared(sources[1])) = 4
  /\ Len(Declared(sources[2])) = 3
  /\ IsArray(DeclaredType(1, 1))
  /\ FieldLineAt(1, 1)[4] = <<"U","s","e","r","S","t","a","t","u","s">>
  /\ result[EnumOpenAt(1)][2] = <<"U","s","e","r","S","t","a","t","u","s">>
  /\ isRecord(DeclaredType(1, 3))
  /\ FieldLineAt(1, 3)[4] = <<"U","s","e","r","X","m","l","p","a","r","s","e","r">>
  /\ EmittedName(2) = <<"U","s","e","r","X","m","l","p","a","r","s","e","r">>
  /\ IsArray(DeclaredType(2, 2))
  /\ FieldLineAt(2, 2)[4] = EmittedName(2) \o <<"M","o","d","e">>
  /\ result[EnumOpenAt(2)][2] = EmittedName(2) \o <<"M","o","d","e">>

\* ------------------------------------------------------------------------
\* C12: references to union types
\* ------------------------------------------------------------------------

\* the innermost buildMessage is about to process a field whose type is a
\* string that names an entry of the Types block
ResolvingNamedType ==
  /\ pc = "buildMessage"
  /\ HasNextField(Top)
  /\ IsString(NextField(Top).fieldType)
  /\ HasOwn(customTypes, TypeNameOf(NextField(Top).fieldType))

\* what the Types block declares for that name
NextCustomDef == OwnValue(customTypes, TypeNameOf(NextField(Top).fieldType))

\* that entry is a mapping with the key oneOf
ResolvingMappingWithOneOf ==
  /\ ResolvingNamedType
  /\ isRecord(NextCustomDef)
  /\ HasOwn(NextCustomDef, s_oneOf)

\* that entry is a mapping whose key oneOf holds a sequence
ResolvingUnion ==
  /\ ResolvingMappingWithOneOf
  /\ IsArray(OwnValue(NextCustomDef, s_oneOf))

\* the step gives the field the type google.protobuf.Value and leaves the two
\* lists and the two sets of names as they are
ResolvesToValue ==
  /\ UNCHANGED <<messages, enums, generatedMessages, generatedEnums>>
  /\ Len(stack') = Len(stack)
  /\ Len(stack'[Len(stack)].fields) = Len(Top.fields) + 1
  /\ stack'[Len(stack)].fields[Len(Top.fields) + 1].type = s_Value

\* C12 as stated: a field that refers to a custom type declared as a mapping
\* with the key oneOf resolves to google.protobuf.Value, and the step
\* registers no message and no enum.
C12_UnionKey == [][ResolvingMappingWithOneOf => ResolvesToValue]_vars

\* C12, amended: the same for a mapping whose key oneOf holds a sequence; a
\* mapping whose oneOf is anything else is a nested message type.
C12_Union == [][ResolvingUnion => ResolvesToValue]_vars

\* the only field of the root refers to Choice: { oneOf = [string, number] }
C12_Witness ==
  /\ Done
  /\ Len(Declared(sources[1])) = 1
  /\ IsString(DeclaredType(1, 1))
  /\ DeclaredType(1, 1).v = n_Choice
  /\ HasOwn(customTypes, n_Choice)
  /\ messages[1].fields[1].type = s_Value
  /\ Len(messages) = 1
  /\ enums = <<>>
  /\ generatedMessages = {}
  /\ generatedEnums = {}

\* ------------------------------------------------------------------------
\* C13: the two failures of a call
\* ------------------------------------------------------------------------

Failed_ == pc = "failed"

\* the schema text has leading directive lines that do not parse
DirectiveFails ==
  schemaContent.directiveLines > 0 /\ schemaContent.directive.log # <<>>

\* the text after the directive lines does not parse
SchemaFails == schemaContent.rest.log # <<>>

\* C13: a call fails when its directive lines do not parse, with the
\* directive failure also when the remaining text would not parse either, and
\* when the remaining text does not parse, with the schema failure, and in no
\* other way; the message is the kind of the failure followed by the
\* diagnostics with a comma between them; a failed call returns no text and
\* has built no message and no enum.
C13_Failures ==
  /\ Failed_ =>
       /\ DirectiveFails \/ SchemaFails
       /\ Len(thrown) = 2 * Len(IF DirectiveFails THEN schemaContent.directive.log
                                ELSE schemaContent.rest.log)
       /\ thrown[1] = (IF DirectiveFails THEN "Directive parse errors: "
                       ELSE "Parse errors: ")
       /\ \A i \in 1..Len(IF DirectiveFails THEN schemaContent.directive.log
                          ELSE schemaContent.rest.log) :
            /\ thrown[2 * i] = (IF DirectiveFails THEN schemaContent.directive.log
                                ELSE schemaContent.rest.log)[i]
            /\ i > 1 => thrown[2 * i - 1] = ", "
       /\ result = <<>>
       /\ messages = <<>>
       /\ enums = <<>>
       /\ generatedMessages = {}
       /\ generatedEnums = {}
       /\ stack = <<>>
  /\ ~Failed_ => thrown = NoError
  /\ ContextCreated => ~DirectiveFails /\ ~SchemaFails
  /\ (pc = "parseSchema" /\ DirectiveFails) => FALSE

\* directive lines with two diagnostics before a text that would not parse
\* either: the directive failure
C13_Witness ==
  /\ Failed_
  /\ DirectiveFails
  /\ SchemaFails
  /\ thrown = <<"Directive parse errors: ", "unexpected token", ", ",
                "unterminated string">>
  /\ result = <<>>

\* ------------------------------------------------------------------------
\* C14: the order of the message blocks
\* ------------------------------------------------------------------------

\* the first message block is the root's: it has the name given to the call
\* and the fields the root of the schema declares
RootBlockFirst ==
  /\ EmittedName(1) = messageName
  /\ CloseAfter(MessageOpenAt(1)) = MessageOpenAt(1) + Len(Declared(rest.tag)) + 1
  /\ \A j \in 1..Len(Declared(rest.tag)) :
       FieldLineAt(1, j)[6] = toSnakeCase(Declared(rest.tag)[j][1])

\* the block, after the root's, of the message of the name
BlockOf(name) == CHOOSE m \in 2..Len(messages) : EmittedName(m) = name

\* the q-th registered message was registered while the body of the p-th was
\* being built
RegisteredInside(p, q) ==
  \A r \in (p + 1)..q : discovered[r].depth > discovered[p].depth

\* C14 as stated: the root's block is the first message block, and the other
\* blocks come in the order in which their messages were first referred to in
\* the depth-first walk of the root's fields.
C14_DiscoveryOrder ==
  Done =>
    /\ RootBlockFirst
    /\ Len(discovered) = Len(messages) - 1
    /\ \A p \in DOMAIN discovered : EmittedName(p + 1) = discovered[p].name

\* C14, amended: the root's block is the first message block, and the other
\* blocks come in the order in which their bodies were finished: a message
\* first referred to from within the body of another one comes before that
\* one, and of two messages neither of which is first referred to within the
\* other, the one referred to earlier comes first.
C14_CompletionOrder ==
  Done =>
    /\ RootBlockFirst
    /\ Len(discovered) = Len(messages) - 1
    /\ \A p, q \in DOMAIN discovered :
         p < q =>
           IF RegisteredInside(p, q)
           THEN BlockOf(discovered[q].name) < BlockOf(discovered[p].name)
           ELSE BlockOf(discovered[p].name) < BlockOf(discovered[q].name)

\* root User with one field of type Ping, whose body refers to Pong: Ping is
\* registered first and its block comes last
C14_Witness ==
  /\ Done
  /\ messageName = n_User
  /\ Len(discovered) = 2
  /\ discovered[1].name = n_Ping
  /\ discovered[2].name = n_Pong
  /\ EmittedName(1) = n_User
  /\ EmittedName(2) = n_Pong
  /\ EmittedName(3) = n_Ping

\* ------------------------------------------------------------------------
\* C15: field names in snake case
\* ------------------------------------------------------------------------

\* the characters field names are drawn from: a lower-case letter, a
\* capital, a digit, a hyphen and a blank
NameAlphabet == {"a", "B", "1", "-", " "}

MaxNameLen == 4

Names == UNION {[1..n -> NameAlphabet] : n \in 0..MaxNameLen}

\* Root messages of one string field, of every name of Names, and the
\* contents of InitPackages
InitNames ==
  /\ Called
  /\ \/ \E name \in Names :
          /\ schemaContent =
               PlainContent(Obj(<< <<s_Required,
                                     Obj(<< <<name, Str(s_string)>> >>)>> >>))
          /\ messageName = n_User
          /\ options = [packageName |-> Undefined]
     \/ InitPackages

SpecNames == InitNames /\ [][Next]_vars

\* an underscore goes before the capital at i: after a lower-case letter or a
\* digit, or where it is the last capital of a run and a lower-case letter
\* follows
UnderscoreBefore(s, i) ==
  /\ i > 1
  /\ IsUpper(s[i])
  /\ \/ IsLower(s[i - 1]) \/ IsDigit(s[i - 1])
     \/ IsUpper(s[i - 1]) /\ i < Len(s) /\ IsLower(s[i + 1])

IsHyphenOrSpace(c) == c = "-" \/ IsSpace(c)

RECURSIVE SnakeFrom(_, _)
\* the snake-case name read off the declared name in one pass from i on
SnakeFrom(s, i) ==
  IF i > Len(s) THEN <<>>
  ELSE IF IsHyphenOrSpace(s[i])
       THEN (IF i > 1 /\ IsHyphenOrSpace(s[i - 1]) THEN <<>> ELSE <<"_">>)
            \o SnakeFrom(s, i + 1)
       ELSE (IF UnderscoreBefore(s, i) THEN <<"_">> ELSE <<>>)
            \o <<ToLowerChar(s[i])>> \o SnakeFrom(s, i + 1)

\* the four names of the examples and their snake-case forms
SnakeExamples ==
  { <<f_firstName, <<"f","i","r","s","t","_","n","a","m","e">> >>,
    <<f_XMLParser, <<"x","m","l","_","p","a","r","s","e","r">> >>,
    << <<"h","t","t","p","U","R","L">>, <<"h","t","t","p","_","u","r","l">> >>,
    <<f_myField, <<"m","y","_","f","i","e","l","d">> >> }

\* C15: every field is emitted and recorded under the snake-case form of its
\* declared name: an underscore between a lower-case letter or digit and a
\* following capital and before the last capital of a run of capitals that a
\* lower-case letter follows, one underscore for every run of hyphens or
\* blanks, everything lower-cased; firstName, XMLParser, httpURL and
\* my-field become first_name, xml_parser, http_url and my_field
C15_SnakeCase ==
  Done =>
    /\ \A m \in 1..Len(sources) : \A j \in 1..Len(Declared(sources[m])) :
         /\ FieldLineAt(m, j)[6] = SnakeFrom(DeclaredName(m, j), 1)
         /\ messages[m].fields[j].name = SnakeFrom(DeclaredName(m, j), 1)
    /\ \A e \in SnakeExamples :
         toSnakeCase(e[1]) = e[2] /\ SnakeFrom(e[1], 1) = e[2]

\* a field declared as "aBBa" has been emitted as "a_b_ba"
C15_Witness ==
  /\ Done
  /\ Len(sources) = 1
  /\ Len(Declared(sources[1])) = 1
  /\ DeclaredName(1, 1) = <<"a", "B", "B", "a">>
  /\ FieldLineAt(1, 1)[6] = <<"a", "_", "b", "_", "b", "a">>

\* ------------------------------------------------------------------------
\* C16: custom types that refer to themselves or to each other
\* ------------------------------------------------------------------------

\* the names of the buildMessage calls under the root's
BuildingNames == { stack[i].name : i \in 2..Len(stack) }

\* the positions beyond the root's of the messages named name
MessagesNamed(name) == { m \in 2..Len(messages) : messages[m].name = name }

\* the type of the next field is the name of a message whose body is being
\* built
RefersToBuilding ==
  /\ pc = "buildMessage"
  /\ HasNextField(Top)
  /\ NextResolved.type \in BuildingNames

\* every body being built has its name in the generated set, and no body is
\* entered twice
BuiltOnce ==
  pc = "buildMessage" =>
    /\ BuildingNames \subseteq generatedMessages
    /\ Cardinality(BuildingNames) = Len(stack) - 1
    /\ RefersToBuilding => NextResolved.build = <<>>

\* every message that was discovered is declared once
DeclaredOnce ==
  /\ Len(messages) = Len(discovered) + 1
  /\ Cardinality(MessageOpenLines) = Len(messages)
  /\ \A d \in DOMAIN discovered :
       /\ Cardinality(MessagesNamed(discovered[d].name)) = 1
       /\ \E m \in 2..Len(messages) :
            /\ EmittedName(m) = discovered[d].name
            /\ \A k \in 2..Len(messages) :
                 EmittedName(k) = discovered[d].name => k = m

RECURSIVE Mappings(_), MappingsIn(_, _)
\* the number of mappings of a parsed value, itself included
Mappings(value) ==
  IF isRecord(value) THEN 1 + MappingsIn([i \in DOMAIN value.v |-> value.v[i][2]], 1)
  ELSE IF IsArray(value) THEN MappingsIn(value.v, 1)
  ELSE 0

MappingsIn(values, i) ==
  IF i > Len(values) THEN 0
  ELSE Mappings(values[i]) + MappingsIn(values, i + 1)

RECURSIVE FieldsLeft(_)
\* the fields the first i buildMessage calls have still to process, and one
\* for the return of each
FieldsLeft(i) ==
  IF i = 0 THEN 0
  ELSE Len(FieldEntries(stack[i].schema)) + 2 - stack[i].next + FieldsLeft(i - 1)

LeftToDo == FieldsLeft(Len(stack))

\* how far the call has come
Rank(pc_) ==
  CASE pc_ = "parseDirectives"   -> 0
    [] pc_ = "parseSchema"       -> 1
    [] pc_ = "buildMessage"      -> 2
    [] pc_ = "generateProtoFile" -> 3
    [] OTHER                     -> 4

Parsed_ == pc \in {"buildMessage", "generateProtoFile"}

\* the innermost buildMessage call has a field to process or has gone
\* through its fields and returns, to the call that waits for it or to
\* motlySchemaToProto
GoesOn ==
  pc = "buildMessage" =>
    /\ Len(stack) >= 1
    /\ Top.next \in 1..(Len(FieldEntries(Top.schema)) + 1)
    /\ Top.pending = <<>>
    /\ \A i \in 1..(Len(stack) - 1) : Len(stack[i].pending) = 1

\* a step of the resolution: a message is discovered, of which there are no
\* more than the tree has mappings, or a field or a return is done with
Advances ==
  /\ Cardinality(generatedMessages') <= Mappings(rest'.tag)
  /\ \/ Rank(pc') > Rank(pc)
     \/ /\ pc' = pc
        /\ pc = "buildMessage"
        /\ \/ Cardinality(generatedMessages') > Cardinality(generatedMessages)
           \/ /\ generatedMessages' = generatedMessages
              /\ LeftToDo' < LeftToDo

\* C16: once the schema tree is parsed, resolution goes on, step by step
\* through finitely many, to a returned document and never to a failure,
\* also when custom types refer to themselves or to each other: a name is in
\* the generated set before its body is built, a reference to a type that
\* is being built does not enter its body again, and each such type is
\* declared exactly once
C16_Terminates ==
  [][/\ Parsed_ => BuiltOnce /\ Advances /\ pc' # "failed"
     /\ GoesOn'
     /\ Done' => DeclaredOnce']_vars

\* Ping, with a field of type Pong, and Pong, with a field of type "Ping[]",
\* are each declared once after Pong referred to Ping while both were built
C16_Witness ==
  /\ Done
  /\ Len(discovered) = 2
  /\ discovered[1] = [name |-> n_Ping, depth |-> 1]
  /\ discovered[2] = [name |-> n_Pong, depth |-> 2]
  /\ Cardinality(MessageOpenLines) = 3
  /\ EmittedName(2) = n_Pong
  /\ EmittedName(3) = n_Ping
  /\ Len(Declared(sources[2])) = 1
  /\ FieldLineAt(2, 1)[3] = "repeated "
  /\ FieldLineAt(2, 1)[4] = n_Ping
  /\ FieldLineAt(3, 1)[4] = n_Pong

\* ------------------------------------------------------------------------
\* C17: no state crosses a call
\* ------------------------------------------------------------------------

Ended == pc \in {"done", "failed"}

\* the calls that have ended, the one that has just ended included
Outcomes == returned \o (IF Ended THEN <<Outcome>> ELSE <<>>)

SameArguments(a, b) ==
  /\ a.schemaContent = b.schemaContent
  /\ a.messageName = b.messageName
  /\ a.options = b.options

\* C17: in a sequence of calls, a call returns or throws what the first call
\* with the same schema text, root name and options did, whatever calls
\* were made in between, so that no name generated by an earlier call
\* suppresses or alters a declaration of a later one, and calls with equal
\* arguments return equal text
C17_NoStateCrosses ==
  \A i, j \in DOMAIN Outcomes :
    SameArguments(Outcomes[i], Outcomes[j]) =>
      /\ Outcomes[i].result = Outcomes[j].result
      /\ Outcomes[i].thrown = Outcomes[j].thrown

\* the third call has returned, with the arguments of the first and after a
\* second call that declared Node and Status too, the text of the first,
\* which declares the message Node
C17_Witness ==
  /\ pc = "done"
  /\ Len(returned) = 2
  /\ SameArguments(returned[1], CallInputs[5])
  /\ SameArguments(returned[2], CallInputs[4])
  /\ SameArguments(Outcome, CallInputs[5])
  /\ result = returned[1].result
  /\ \E i \in MessageOpenLines : result[i][2] = n_Node
  /\ \E i \in DOMAIN returned[2].result :
       /\ IsMessageOpen(returned[2].result[i])
       /\ returned[2].result[i][2] = n_Node

\* ------------------------------------------------------------------------
\* C18: what the resolution leaves alone
\* ------------------------------------------------------------------------

\* the alias table and the custom types are the ones the context was created
\* with
TablesAsCreated ==
  /\ customTypes = TypesOf(rest.tag)
  /\ typeAliases = buildTypeAliases(TypesOf(rest.tag))
  /\ packageName = PackageNameOf(options, directives)

\* C18: from the creation of the context to the rendered document, no step
\* of the resolution and not the rendering changes the alias table or the
\* custom types, which stay the ones the context was created with; of the
\* context only the list of messages, the list of enums and the two sets of
\* generated names change
C18_TablesUnchanged ==
  [][ContextCreated =>
       /\ TablesAsCreated
       /\ UNCHANGED <<typeAliases, customTypes, packageName>>]_vars

\* a document is rendered from a context with an alias and custom types, to
\* which messages, enums and generated names were added
C18_Witness ==
  /\ Done
  /\ TablesAsCreated
  /\ typeAliases # <<>>
  /\ isRecord(customTypes) /\ Entries(customTypes) # <<>>
  /\ Len(messages) > 1
  /\ enums # <<>>
  /\ generatedMessages # {}
  /\ generatedEnums # {}

\* ------------------------------------------------------------------------
\* C19: string type expressions that end in "[]"
\* ------------------------------------------------------------------------

\* a string type expression whose last two characters are "[]"
EndsInBrackets(fieldType) ==
  /\ IsString(fieldType)
  /\ Len(fieldType.v) >= 2
  /\ SubSeq(fieldType.v, Len(fieldType.v) - 1, Len(fieldType.v)) = <<"[", "]">>

\* the field that is processed next is declared with a string that ends in
\* "[]"
ResolvingBrackets ==
  /\ pc = "buildMessage"
  /\ HasNextField(Top)
  /\ EndsInBrackets(NextField(Top).fieldType)

\* resolveType gives the next field the type, the enum and the message that
\* the single-type resolution of typeName gives, and repeated as told
ResolvesAs(typeName, repeated) ==
  /\ NextResolved.repeated = repeated
  /\ NextResolved.type = resolveSingleType(typeName, context).type
  /\ NextResolved.enum = resolveSingleType(typeName, context).enum
  /\ NextResolved.build = resolveSingleType(typeName, context).build

\* the field line of a declared field carries repeated as told and the type
\* of the single-type resolution of typeName
RenderedAs(f, typeName, repeated) ==
  /\ FieldLineAt(f[1], f[2])[3] = (IF repeated THEN "repeated " ELSE "")
  /\ FieldLineAt(f[1], f[2])[4] = resolveSingleType(typeName, context).type

\* C19 as stated: every string type expression that ends in "[]", the
\* expression "[]" included, resolves to repeated = true and to the
\* single-type resolution of the expression without its final "[]"
C19_EveryBracketSuffix ==
  /\ ResolvingBrackets =>
       ResolvesAs(ElementType(NextField(Top).fieldType), TRUE)
  /\ Done =>
       \A f \in DeclaredFields :
         EndsInBrackets(DeclaredType(f[1], f[2])) =>
           RenderedAs(f, ElementType(DeclaredType(f[1], f[2])), TRUE)

\* C19: a string type expression that ends in "[]" after one character or
\* more, none of them a line terminator, "T[][]" included, resolves to
\* repeated = true and to the single-type resolution of the expression
\* without its final "[]", and registers what a bare reference to it would;
\* every other string that ends in "[]", the expression "[]" included,
\* resolves as a bare name, with repeated = false
C19_ArrayExpressions ==
  /\ ResolvingBrackets =>
       IF IsArrayExpression(NextField(Top).fieldType)
       THEN ResolvesAs(ElementType(NextField(Top).fieldType), TRUE)
       ELSE ResolvesAs(NextField(Top).fieldType.v, FALSE)
  /\ Done =>
       \A f \in DeclaredFields :
         EndsInBrackets(DeclaredType(f[1], f[2])) =>
           IF IsArrayExpression(DeclaredType(f[1], f[2]))
           THEN RenderedAs(f, ElementType(DeclaredType(f[1], f[2])), TRUE)
           ELSE RenderedAs(f, DeclaredType(f[1], f[2]).v, FALSE)

\* a field declared as "[]" is rendered as a string that is not repeated
C19_Witness ==
  /\ Done
  /\ Len(sources) = 1
  /\ Len(Declared(sources[1])) = 1
  /\ IsString(DeclaredType(1, 1))
  /\ DeclaredType(1, 1).v = <<"[", "]">>
  /\ FieldLineAt(1, 1)[3] = ""
  /\ FieldLineAt(1, 1)[4] = s_string

\* ------------------------------------------------------------------------
\* C20: every type of the output is known in the output
\* ------------------------------------------------------------------------

\* the scalars of the fixed table
TableScalars ==
  { <<"s","t","r","i","n","g">>, <<"d","o","u","b","l","e">>, <<"b","o","o","l">> }

\* the well-known types
WellKnownTypes == { s_Timestamp, s_Struct, s_Value }

\* the protobuf numeric types that the Types block declares as number
AdmittedAliases ==
  { n \in PROTO_NUMERIC_TYPES :
      /\ isRecord(customTypes)
      /\ HasOwn(customTypes, n)
      /\ IsString(OwnValue(customTypes, n))
      /\ OwnValue(customTypes, n).v = <<"n","u","m","b","e","r">> }

\* the names of the messages and enums that the text declares
DeclaredNames == { result[i][2] : i \in MessageOpenLines \cup EnumOpenLines }

KnownTypes ==
  TableScalars \cup WellKnownTypes \cup AdmittedAliases \cup DeclaredNames

\* C20: in the text that a call returns, the type of every field of every
\* message is a scalar of the fixed table, an admitted numeric alias, a
\* well-known type or the name of an enum or a message that the same text
\* declares, also when the field referred to a message whose body was still
\* being built
C20_ReferentialIntegrity ==
  Done =>
    /\ Cardinality(MessageOpenLines) = Len(messages)
    /\ \A m \in DOMAIN messages : \A j \in DOMAIN messages[m].fields :
         /\ IsFieldLine(FieldLineAt(m, j))
         /\ FieldLineAt(m, j)[4] = messages[m].fields[j].type
         /\ FieldLineAt(m, j)[4] \in KnownTypes

\* the message Node, whose first field referred to Node while Node was
\* built, is declared in the text, after the root message that refers to it
C20_Witness ==
  /\ Done
  /\ Len(messages) = 2
  /\ EmittedName(2) = n_Node
  /\ Len(messages[2].fields) = 3
  /\ FieldLineAt(2, 1)[4] = n_Node
  /\ FieldLineAt(2, 2)[4] = n_Node
  /\ FieldLineAt(1, 1)[4] = n_Node
  /\ n_Node \in DeclaredNames

\* ------------------------------------------------------------------------
\* C21: the names of the declarations of one output
\* ------------------------------------------------------------------------

\* C21: in the text that a call returns, no two message blocks, the root
\* message's included, have the same name, no two enum blocks have the same
\* name, and no enum block has the name of a message block
C21_DistinctNames ==
  Done =>
    /\ \A i, j \in MessageOpenLines : result[i][2] = result[j][2] => i = j
    /\ \A i, j \in EnumOpenLines : result[i][2] = result[j][2] => i = j
    /\ \A i \in MessageOpenLines : \A j \in EnumOpenLines :
         result[i][2] # result[j][2]

\* ------------------------------------------------------------------------
\* C22: what an inline type resolves to
\* ------------------------------------------------------------------------

\* the type of the field is the name of an enum, and every enum of that name
\* has the values of the literal, in their order
ResolvesToOwnEnum(f) ==
  /\ \E e \in DOMAIN enums : enums[e].name = messages[f[1]].fields[f[2]].type
  /\ \A e \in DOMAIN enums :
       enums[e].name = messages[f[1]].fields[f[2]].type =>
         /\ enums[e].values = MapString(DeclaredType(f[1], f[2]))
         /\ EnumBlockAsDeclared(e)

\* the type of the field is the name of a message, and every message of that
\* name is built from the sections of the object
ResolvesToOwnMessage(f) ==
  /\ \E m \in DOMAIN messages :
       messages[m].name = messages[f[1]].fields[f[2]].type
  /\ \A m \in DOMAIN messages :
       messages[m].name = messages[f[1]].fields[f[2]].type =>
         /\ sources[m] = DeclaredType(f[1], f[2])
         /\ NumberedAsDeclared(messages[m].fields, DeclaredType(f[1], f[2]))

\* C22: in a returned text, a field declared with an inline enum literal has
\* the type of an enum declared with the values of that literal in their
\* order, and a field declared with an inline object has the type of a
\* message built from the Required and Optional sections of that object,
\* also when the field name occurs in both sections of its message or the
\* name of the inline type is the PascalCase name of a custom type
C22_InlineTypesOwn ==
  Done =>
    \A f \in DeclaredFields :
      /\ IsArray(DeclaredType(f[1], f[2])) => ResolvesToOwnEnum(f)
      /\ isRecord(DeclaredType(f[1], f[2])) => ResolvesToOwnMessage(f)

====
